---- MODULE Spec2Model ----
(***************************************************************************)
(* Model of the autoppia web agent's decision core:                        *)
(*   agent/actions.py  (validate_and_fix, build_action, URL helpers)       *)
(*   llm/parser.py     (parse_llm_json, normalize_decision)                *)
(*   agent/state.py    (check_loop, clear_task_state)                      *)
(*   agent/loop.py     (decide)                                            *)
(* Python strings are modelled as sequences of one-character strings, so   *)
(* that .lower(), .strip(), "in", startswith and f-string concatenation    *)
(* are computed character by character.  Enumerated discriminators (tag    *)
(* names, input types, selector and action type names) are plain strings.  *)
(***************************************************************************)
EXTENDS Integers, Sequences, FiniteSets, TLC

VARIABLES
    \* ---- build_action applied as a pure function (SpecBuild)
    b_decision,     \* the decision dict handed to build_action
    b_candidates,   \* the candidate list
    b_url,          \* current_url
    b_step,         \* step_index
    b_fixed,        \* what validate_and_fix returned for these inputs
    b_result,       \* what build_action returned (or raised)
    b_pc,           \* "input" before the call, "called" after it
    \* ---- one /act request handled by decide (SpecDecide)
    request,        \* the ActRequest being handled
    candidates,     \* extract_candidates' result for the request's snapshot
    pc,             \* "idle" | "llm" | "returned" | "raised"
    attempt,        \* loop variable of "for attempt in range(max_retries + 1)"
    llm_calls,      \* chat_completions calls made for this request
    replies,        \* how each gateway reply of this request was classified
    decision,       \* the normalised decision handed to build_action, if any
    response,       \* the ActResponse returned, or the exception raised
    served,         \* requests answered so far
    d_steps,        \* the calls decide has made for this request, in order
    \* ---- the module-level loop-detection state (SpecLoop, SpecDecide)
    _TASK_STATE,    \* agent/state.py:12, task_id -> state record
    calls,          \* SpecLoop: (sig, url, hint, repeat_count) of each check_loop call
    hint,           \* what the last check_loop call returned
    \* ---- /act requests in flight on the event loop (SpecAct)
    inflight,       \* request number -> where its handler stands
    \* ---- extract_candidates applied to a pruned tree (SpecExtract)
    x_soup,         \* the elements of the tree, in document order
    x_candidates,   \* the list extract_candidates returned
    x_nodes,        \* for each returned candidate, the element it was built from
    x_pc,           \* "input" before the call, "called" after it
    \* ---- build_selector applied as a pure function (SpecSelector)
    sel_in,         \* (tag, attrs, text)
    sel_out,        \* the selector dict returned
    \* ---- build_page_ir applied as a pure function (SpecPageIR)
    ir_in,          \* url, title, headings, body text, candidates, max_tokens
    ir_out,         \* the text returned
    \* ---- preserve_seed and normalize_url applied as pure functions (SpecUrl)
    u_in,           \* (target_url, current_url)
    u_out,          \* which function was applied and what it returned
    \* ---- infer_label applied as a pure function (SpecLabel)
    lb_in,          \* the element: tag, attributes, texts of the label sources
    lb_out,         \* the label returned, or the exception raised
    \* ---- the context of a candidate (SpecContext)
    cx_in,          \* the element's tag and its ancestors, nearest first
    cx_out,         \* the context string
    \* ---- one chat_completions call under tenacity's retry (SpecClient)
    c_log,          \* the outcome of each transport attempt made so far
    c_pc            \* "call" | "attempt" | "returned" | "raised"

buildVars  == <<b_decision, b_candidates, b_url, b_step, b_fixed, b_result, b_pc>>
decideVars == <<request, candidates, pc, attempt, llm_calls, replies, decision, response, served,
               d_steps>>
loopVars   == <<_TASK_STATE, calls, hint>>
fnVars     == <<u_in, u_out, lb_in, lb_out, cx_in, cx_out, c_log, c_pc>>
extVars    == <<inflight, x_soup, x_candidates, x_nodes, x_pc, sel_in, sel_out, ir_in, ir_out,
               fnVars>>
vars       == <<buildVars, decideVars, loopVars, extVars>>

(***************************************************************************)
(* Python strings                                                          *)
(***************************************************************************)
s_empty == << >>
s_at == <<"@">>
s_colon == <<":">>
s_slash == <<"/">>
s_dslash == <<"/", "/">>
s_http == <<"h", "t", "t", "p">>
s_http_pfx == <<"h", "t", "t", "p", ":", "/", "/">>
s_https_pfx == <<"h", "t", "t", "p", "s", ":", "/", "/">>
s_localhost == <<"l", "o", "c", "a", "l", "h", "o", "s", "t">>
s_http_localhost == <<"h", "t", "t", "p", ":", "/", "/", "l", "o", "c", "a", "l", "h", "o", "s", "t">>
s_password_ph == <<"<", "p", "a", "s", "s", "w", "o", "r", "d", ">">>
s_username_ph == <<"<", "u", "s", "e", "r", "n", "a", "m", "e", ">">>
s_user == <<"u", "s", "e", "r">>
s_email == <<"e", "m", "a", "i", "l">>
s_done == <<"d", "o", "n", "e">>
s_scroll_down == <<"s", "c", "r", "o", "l", "l", "_", "d", "o", "w", "n">>
s_scroll_up == <<"s", "c", "r", "o", "l", "l", "_", "u", "p">>
s_navigate == <<"n", "a", "v", "i", "g", "a", "t", "e">>
s_click == <<"c", "l", "i", "c", "k">>
s_type == <<"t", "y", "p", "e">>
s_select == <<"s", "e", "l", "e", "c", "t">>
s_wait == <<"w", "a", "i", "t">>
s_unknown == <<"u", "n", "k", "n", "o", "w", "n">>

Digits == {"0", "1", "2", "3", "4", "5", "6", "7", "8", "9"}
UpperLetters ==
    <<"A", "B", "C", "D", "E", "F", "G", "H", "I", "J", "K", "L", "M",
      "N", "O", "P", "Q", "R", "S", "T", "U", "V", "W", "X", "Y", "Z">>
LowerLetters ==
    <<"a", "b", "c", "d", "e", "f", "g", "h", "i", "j", "k", "l", "m",
      "n", "o", "p", "q", "r", "s", "t", "u", "v", "w", "x", "y", "z">>
Upper == {UpperLetters[i] : i \in 1..Len(UpperLetters)}

\* str.lower() on one character.
LowerChar(c) ==
    IF c \in Upper
    THEN LowerLetters[CHOOSE i \in 1..Len(UpperLetters) : UpperLetters[i] = c]
    ELSE c

\* str.lower()
Lower(s) == [i \in 1..Len(s) |-> LowerChar(s[i])]

\* "sub in s"
Contains(s, sub) ==
    \E i \in 0..(Len(s) - Len(sub)) : SubSeq(s, i + 1, i + Len(sub)) = sub

\* s.startswith(p)
StartsWith(s, p) == Len(s) >= Len(p) /\ SubSeq(s, 1, Len(p)) = p

\* s.find(c) + 1 for a single character c: 0 when c does not occur.
Find(s, c) ==
    IF \E i \in 1..Len(s) : s[i] = c
    THEN CHOOSE i \in 1..Len(s) : s[i] = c /\ \A j \in 1..(i - 1) : s[j] # c
    ELSE 0

\* s.rfind(c) + 1
RFind(s, c) ==
    IF \E i \in 1..Len(s) : s[i] = c
    THEN CHOOSE i \in 1..Len(s) : s[i] = c /\ \A j \in (i + 1)..Len(s) : s[j] # c
    ELSE 0

\* s.lstrip() for the whitespace the inputs use (the space character).
LStrip(s) ==
    IF \A i \in 1..Len(s) : s[i] = " " THEN << >>
    ELSE SubSeq(s, CHOOSE i \in 1..Len(s) : s[i] # " " /\ \A j \in 1..(i - 1) : s[j] = " ", Len(s))

\* s.rstrip()
RStrip(s) ==
    IF \A i \in 1..Len(s) : s[i] = " " THEN << >>
    ELSE SubSeq(s, 1, CHOOSE i \in 1..Len(s) : s[i] # " " /\ \A j \in (i + 1)..Len(s) : s[j] = " ")

\* s.strip()
Strip(s) == RStrip(LStrip(s))

(***************************************************************************)
(* Python values as they arrive in a decision dict (parsed JSON, or a      *)
(* dict built by the caller).  One record shape for every value:           *)
(*   t = "missing"  the key is absent from the dict                        *)
(*   t = "none"     None / JSON null                                       *)
(*   t = "int"      the integer n                                          *)
(*   t = "float"    a finite float whose truncation toward zero is n       *)
(*   t = "inf"      float('inf') (json.loads accepts 1e999 and Infinity)   *)
(*   t = "str"      the string s                                           *)
(*   t = "list"     a list (any value int() rejects with TypeError)        *)
(***************************************************************************)
PyMissing == [t |-> "missing", n |-> 0, s |-> << >>]
PyNone == [t |-> "none", n |-> 0, s |-> << >>]
PyInt(k) == [t |-> "int", n |-> k, s |-> << >>]
PyFloat(k) == [t |-> "float", n |-> k, s |-> << >>]
PyInf == [t |-> "inf", n |-> 0, s |-> << >>]
PyStr(x) == [t |-> "str", n |-> 0, s |-> x]
PyList == [t |-> "list", n |-> 0, s |-> << >>]

\* dict.get(key, default)
Get(d, key, default) == IF d[key].t = "missing" THEN default ELSE d[key]

\* bool(v): Python truthiness of a value.
Truthy(v) ==
    CASE v.t = "str" -> v.s # << >>
      [] v.t \in {"int", "float"} -> v.n # 0
      [] v.t = "inf" -> TRUE
      [] OTHER -> FALSE

DigitVal(c) ==
    CASE c = "0" -> 0 [] c = "1" -> 1 [] c = "2" -> 2 [] c = "3" -> 3 [] c = "4" -> 4
      [] c = "5" -> 5 [] c = "6" -> 6 [] c = "7" -> 7 [] c = "8" -> 8 [] c = "9" -> 9
      [] OTHER -> 0

RECURSIVE DecimalValue(_)
DecimalValue(ds) ==
    IF ds = << >> THEN 0
    ELSE 10 * DecimalValue(SubSeq(ds, 1, Len(ds) - 1)) + DigitVal(ds[Len(ds)])

\* int(s) for a stripped string: an optional sign and decimal digits.
ParseInt(body) ==
    LET signed == body # << >> /\ body[1] \in {"-", "+"}
        ds == IF signed THEN Tail(body) ELSE body
    IN  IF ds # << >> /\ \A i \in 1..Len(ds) : ds[i] \in Digits
        THEN [ok |-> TRUE,
              n |-> IF body[1] = "-" THEN 0 - DecimalValue(ds) ELSE DecimalValue(ds),
              exc |-> "-"]
        ELSE [ok |-> FALSE, n |-> 0, exc |-> "ValueError"]

\* int(v): [ok, n, exc].  int("  12 ") = 12, int("-1") = -1, int("1.5") and
\* int("abc") raise ValueError, int(None) and int([]) raise TypeError,
\* int(1.9) = 1, int(float("inf")) raises OverflowError.
PyIntOf(v) ==
    CASE v.t = "int" -> [ok |-> TRUE, n |-> v.n, exc |-> "-"]
      [] v.t = "float" -> [ok |-> TRUE, n |-> v.n, exc |-> "-"]
      [] v.t = "inf" -> [ok |-> FALSE, n |-> 0, exc |-> "OverflowError"]
      [] v.t = "str" -> ParseInt(Strip(v.s))
      [] OTHER -> [ok |-> FALSE, n |-> 0, exc |-> "TypeError"]

(***************************************************************************)
(* urllib.parse as agent/actions.py uses it (CPython 3.11)                 *)
(***************************************************************************)
Letters == {LowerLetters[i] : i \in 1..Len(LowerLetters)} \cup Upper
SchemeChars == Letters \cup Digits \cup {"+", "-", "."}

\* Bracketed hosts that ipaddress accepts (urlsplit's _check_bracketed_host);
\* every other text between "[" and "]" raises ValueError.
ValidBracketedHosts == { <<":", ":", "1">> }

\* The schemes of urllib.parse.uses_netloc that the inputs can produce.
UsesNetloc == { s_http, <<"h", "t", "t", "p", "s">> }

SetMin(S) == CHOOSE x \in S : \A y \in S : x <= y

\* urlsplit(url): [ok, scheme, netloc, path, query, fragment]; ok = FALSE is
\* the ValueError urlsplit raises for an unbalanced or invalid bracketed host.
\* The stages below follow the statements of urlsplit in order.
SplitBad ==
    [ok |-> FALSE, scheme |-> << >>, netloc |-> << >>, path |-> << >>,
     query |-> << >>, fragment |-> << >>]

\* "if '?' in url: url, query = url.split('?', 1)"
SplitQuery(scheme, netloc, u3, fragment) ==
    LET q == Find(u3, "?")
    IN  [ok |-> TRUE, scheme |-> scheme, netloc |-> netloc,
         path |-> IF q > 0 THEN SubSeq(u3, 1, q - 1) ELSE u3,
         query |-> IF q > 0 THEN SubSeq(u3, q + 1, Len(u3)) ELSE << >>,
         fragment |-> fragment]

\* "if allow_fragments and '#' in url: url, fragment = url.split('#', 1)"
SplitFragment(scheme, netloc, u2) ==
    LET h == Find(u2, "#")
    IN  IF h > 0
        THEN SplitQuery(scheme, netloc, SubSeq(u2, 1, h - 1), SubSeq(u2, h + 1, Len(u2)))
        ELSE SplitQuery(scheme, netloc, u2, << >>)

\* netloc.partition('[')[2].partition(']')[0]
BracketedHost(netloc) ==
    LET afterLb == SubSeq(netloc, Find(netloc, "[") + 1, Len(netloc))
    IN  IF Find(afterLb, "]") > 0 THEN SubSeq(afterLb, 1, Find(afterLb, "]") - 1)
        ELSE afterLb

\* The two bracket checks on netloc that raise ValueError.
BadNetloc(netloc) ==
    \/ Find(netloc, "[") > 0 /\ Find(netloc, "]") = 0
    \/ Find(netloc, "[") = 0 /\ Find(netloc, "]") > 0
    \/ /\ Find(netloc, "[") > 0
       /\ Find(netloc, "]") > 0
       /\ BracketedHost(netloc) \notin ValidBracketedHosts

\* _splitnetloc(url, 2): the index of the first of "/?#" after the "//".
NetlocEnd(u1) ==
    LET delims == {j \in 3..Len(u1) : u1[j] \in {"/", "?", "#"}}
    IN  IF delims = {} THEN Len(u1) + 1 ELSE SetMin(delims)

\* "if url[:2] == '//': netloc, url = _splitnetloc(url, 2)" and the checks.
SplitNetloc(scheme, u1) ==
    IF ~StartsWith(u1, s_dslash) THEN SplitFragment(scheme, << >>, u1)
    ELSE IF BadNetloc(SubSeq(u1, 3, NetlocEnd(u1) - 1)) THEN SplitBad
    ELSE SplitFragment(scheme, SubSeq(u1, 3, NetlocEnd(u1) - 1),
                       SubSeq(u1, NetlocEnd(u1), Len(u1)))

\* "i = url.find(':')" and the scheme test: the index of the ":" that ends
\* a scheme, 0 when the url has none.
SchemeEnd(u0) ==
    LET i == Find(u0, ":")
    IN  IF i > 1 /\ u0[1] \in Letters /\ \A j \in 1..(i - 1) : u0[j] \in SchemeChars
        THEN i ELSE 0

SplitScheme(u0) ==
    IF SchemeEnd(u0) = 0 THEN SplitNetloc(<< >>, u0)
    ELSE SplitNetloc(Lower(SubSeq(u0, 1, SchemeEnd(u0) - 1)),
                     SubSeq(u0, SchemeEnd(u0) + 1, Len(u0)))

urlsplit(url) == SplitScheme(LStrip(url))

\* urlunsplit((scheme, netloc, url, query, fragment))
urlunsplit(scheme, netloc, url, query, fragment) ==
    LET withNet ==
            IF netloc # << >> \/ (scheme \in UsesNetloc /\ ~StartsWith(url, s_dslash))
            THEN s_dslash \o netloc \o
                 (IF url # << >> /\ url[1] # "/" THEN s_slash \o url ELSE url)
            ELSE url
        withScheme == IF scheme # << >> THEN scheme \o s_colon \o withNet ELSE withNet
        withQuery == IF query # << >> THEN withScheme \o <<"?">> \o query ELSE withScheme
    IN  IF fragment # << >> THEN withQuery \o <<"#">> \o fragment ELSE withQuery

\* s.split(c): the pieces of s between occurrences of the character c.
RECURSIVE SplitOn(_, _)
SplitOn(s, c) ==
    LET i == Find(s, c)
    IN  IF i = 0 THEN <<s>>
        ELSE <<SubSeq(s, 1, i - 1)>> \o SplitOn(SubSeq(s, i + 1, Len(s)), c)

HexUpper(c) ==
    CASE c = "a" -> "A" [] c = "b" -> "B" [] c = "c" -> "C" [] c = "d" -> "D"
      [] c = "e" -> "E" [] c = "f" -> "F" [] OTHER -> c

\* The percent escapes of the characters the inputs use: <<hi, lo, char>>.
Escapes ==
    { <<"2", "F", "/">>, <<"4", "0", "@">>, <<"3", "A", ":">>, <<"3", "D", "=">>,
      <<"3", "F", "?">>, <<"5", "B", "[">>, <<"5", "D", "]">>, <<"2", "B", "+">>,
      <<"2", "5", "%">>, <<"2", "6", "&">>, <<"2", "3", "#">>, <<"2", "0", " ">> }

\* U+FFFD, the character that decoding with errors="replace" puts in the
\* place of a byte that is not UTF-8; its own UTF-8 encoding is EF BF BD.
s_replacement == "U+FFFD"
s_FF == <<"%", "F", "F">>
s_EFBFBD == <<"%", "E", "F", "%", "B", "F", "%", "B", "D">>

\* urllib.parse.unquote (encoding="utf-8", errors="replace")
RECURSIVE unquote(_)
unquote(s) ==
    IF s = << >> THEN << >>
    ELSE IF StartsWith([i \in 1..Len(s) |-> HexUpper(s[i])], s_EFBFBD)
         THEN <<s_replacement>> \o unquote(SubSeq(s, 10, Len(s)))
    ELSE IF StartsWith([i \in 1..Len(s) |-> HexUpper(s[i])], s_FF)
         THEN <<s_replacement>> \o unquote(SubSeq(s, 4, Len(s)))
    ELSE IF /\ s[1] = "%"
            /\ Len(s) >= 3
            /\ \E e \in Escapes : e[1] = HexUpper(s[2]) /\ e[2] = HexUpper(s[3])
         THEN LET e == CHOOSE e \in Escapes : e[1] = HexUpper(s[2]) /\ e[2] = HexUpper(s[3])
              IN  <<e[3]>> \o unquote(SubSeq(s, 4, Len(s)))
         ELSE <<s[1]>> \o unquote(Tail(s))

\* urllib.parse.quote_plus: letters, digits and "_.-~" are kept, a space
\* becomes "+", everything else becomes its percent escape.
RECURSIVE quote_plus(_)
quote_plus(s) ==
    IF s = << >> THEN << >>
    ELSE LET c == s[1]
             head == IF c \in Letters \cup Digits \cup {"_", ".", "-", "~"} THEN <<c>>
                     ELSE IF c = " " THEN <<"+">>
                     ELSE IF c = s_replacement THEN s_EFBFBD
                     ELSE IF \E e \in Escapes : e[3] = c
                          THEN LET e == CHOOSE e \in Escapes : e[3] = c
                               IN  <<"%", e[1], e[2]>>
                          ELSE <<"%", "3", "C">>   \* "<" , the one other character in use
         IN  head \o quote_plus(Tail(s))

\* s.replace("+", " ")
PlusToSpace(s) == [i \in 1..Len(s) |-> IF s[i] = "+" THEN " " ELSE s[i]]

\* parse_qsl(qs, keep_blank_values=True): the (name, value) pairs in order.
RECURSIVE PairsOf(_)
PairsOf(fields) ==
    IF fields = << >> THEN << >>
    ELSE LET f == Head(fields)
             eq == Find(f, "=")
             name == IF eq > 0 THEN SubSeq(f, 1, eq - 1) ELSE f
             value == IF eq > 0 THEN SubSeq(f, eq + 1, Len(f)) ELSE << >>
         IN  IF f = << >> THEN PairsOf(Tail(fields))
             ELSE << <<unquote(PlusToSpace(name)), unquote(PlusToSpace(value))>> >>
                  \o PairsOf(Tail(fields))

parse_qsl(qs) == IF qs = << >> THEN << >> ELSE PairsOf(SplitOn(qs, "&"))

\* parse_qs(qs, keep_blank_values=True): a dict in insertion order, modelled
\* as the sequence of [k, vs] with each key once, at its first occurrence.
RECURSIVE GroupPairs(_, _)
GroupPairs(pairs, acc) ==
    IF pairs = << >> THEN acc
    ELSE LET k == Head(pairs)[1]
             v == Head(pairs)[2]
         IN  IF \E i \in 1..Len(acc) : acc[i].k = k
             THEN GroupPairs(Tail(pairs),
                    [i \in 1..Len(acc) |->
                        IF acc[i].k = k THEN [k |-> k, vs |-> Append(acc[i].vs, v)]
                        ELSE acc[i]])
             ELSE GroupPairs(Tail(pairs), Append(acc, [k |-> k, vs |-> <<v>>]))

parse_qs(qs) == GroupPairs(parse_qsl(qs), << >>)

HasKey(params, key) == \E i \in 1..Len(params) : params[i].k = key
ValuesOf(params, key) == (CHOOSE p \in {params[i] : i \in 1..Len(params)} : p.k = key).vs

\* urlencode(params, doseq=True)
RECURSIVE EncodeValues(_, _)
EncodeValues(k, vs) ==
    IF vs = << >> THEN << >>
    ELSE <<quote_plus(k) \o <<"=">> \o quote_plus(Head(vs))>> \o EncodeValues(k, Tail(vs))

RECURSIVE EncodeItems(_)
EncodeItems(params) ==
    IF params = << >> THEN << >>
    ELSE EncodeValues(Head(params).k, Head(params).vs) \o EncodeItems(Tail(params))

RECURSIVE JoinWith(_, _)
JoinWith(parts, sep) ==
    IF parts = << >> THEN << >>
    ELSE IF Len(parts) = 1 THEN parts[1]
    ELSE parts[1] \o sep \o JoinWith(Tail(parts), sep)

urlencode(params) == JoinWith(EncodeItems(params), <<"&">>)

(***************************************************************************)
(* agent/actions.py: URL helpers.  A url argument is a Python value; the   *)
(* result of each helper is [ok, v]: ok = FALSE when urlsplit raised       *)
(* ValueError inside it.                                                   *)
(***************************************************************************)
s_seed == <<"s", "e", "e", "d">>
s_web_agent_id == <<"w", "e", "b", "_", "a", "g", "e", "n", "t", "_", "i", "d">>
s_validator_id == <<"v", "a", "l", "i", "d", "a", "t", "o", "r", "_", "i", "d">>
propagate_keys == <<s_seed, s_web_agent_id, s_validator_id>>

SamePathQuery(a, b) ==
    IF ~a.ok \/ ~b.ok THEN [ok |-> FALSE, same |-> FALSE]
    ELSE [ok |-> TRUE, same |-> a.path = b.path /\ a.query = b.query]

\* _same_path_query(url_a, url_b) on strings: [ok, same].
_same_path_query(url_a, url_b) ==
    IF url_a = << >> \/ url_b = << >> THEN [ok |-> TRUE, same |-> FALSE]
    ELSE SamePathQuery(urlsplit(url_a), urlsplit(url_b))

\* "return urlunsplit(('http', 'localhost', parts.path, parts.query, parts.fragment))"
Relocate(parts) ==
    IF ~parts.ok THEN [ok |-> FALSE, url |-> << >>]
    ELSE [ok |-> TRUE,
          url |-> urlunsplit(s_http, s_localhost, parts.path, parts.query,
                             parts.fragment)]

\* Mutant of normalize_url: every url is taken for a relative one.
normalize_url_AllRelative(raw_url) ==
    IF ~Truthy(raw_url) THEN [ok |-> TRUE, url |-> << >>]
    ELSE IF StartsWith(raw_url.s, s_slash)
    THEN [ok |-> TRUE, url |-> s_http_localhost \o raw_url.s]
    ELSE [ok |-> TRUE, url |-> s_http_localhost \o s_slash \o raw_url.s]

\* normalize_url(raw_url) for a Python value raw_url: [ok, url].
normalize_url(raw_url) ==
    IF ~Truthy(raw_url) THEN [ok |-> TRUE, url |-> << >>]
    ELSE IF ~(StartsWith(raw_url.s, s_http_pfx) \/ StartsWith(raw_url.s, s_https_pfx)
                \/ StartsWith(raw_url.s, s_dslash))
    THEN IF StartsWith(raw_url.s, s_slash)
         THEN [ok |-> TRUE, url |-> s_http_localhost \o raw_url.s]
         ELSE [ok |-> TRUE, url |-> s_http_localhost \o s_slash \o raw_url.s]
    ELSE Relocate(urlsplit(raw_url.s))

\* The loop "for key in propagate_keys" of preserve_seed.
RECURSIVE Propagate(_, _, _)
Propagate(keys, target_params, current_params) ==
    IF keys = << >> THEN target_params
    ELSE LET key == Head(keys)
         IN  IF HasKey(current_params, key) /\ ~HasKey(target_params, key)
             THEN Propagate(Tail(keys),
                            Append(target_params,
                                   [k |-> key, vs |-> ValuesOf(current_params, key)]),
                            current_params)
             ELSE Propagate(Tail(keys), target_params, current_params)

\* "if not modified: return target_url", else the rebuilt url.
Rebuild(target_url, target_parts, target_params, merged) ==
    IF merged = target_params THEN [ok |-> TRUE, url |-> target_url]
    ELSE [ok |-> TRUE,
          url |-> urlunsplit(target_parts.scheme, target_parts.netloc,
                             target_parts.path, urlencode(merged),
                             target_parts.fragment)]

PreserveParts(target_url, target_parts, current_parts) ==
    IF ~target_parts.ok \/ ~current_parts.ok THEN [ok |-> FALSE, url |-> << >>]
    ELSE Rebuild(target_url, target_parts, parse_qs(target_parts.query),
                 Propagate(propagate_keys, parse_qs(target_parts.query),
                           parse_qs(current_parts.query)))

\* preserve_seed(target_url, current_url) on strings: [ok, url].
preserve_seed(target_url, current_url) ==
    IF target_url = << >> \/ current_url = << >> THEN [ok |-> TRUE, url |-> target_url]
    ELSE PreserveParts(target_url, urlsplit(target_url), urlsplit(current_url))

(***************************************************************************)
(* Candidates (parsing/candidates.py) and selectors (models/selectors.py)  *)
(***************************************************************************)
\* A selector dict as build_selector dumps it; attribute = "" when the dict
\* has no "attribute" key (tagContainsSelector).
Selector(type, attribute, value) ==
    [type |-> type, attribute |-> attribute, value |-> value, case_sensitive |-> FALSE]

NoSelector == Selector("", "", << >>)

\* Candidate(id, tag, text, selector, ..., label, parent_form, input_type,
\* placeholder, options); parent_form = << >> stands for None.
Candidate(id, tag, label, selector, input_type, placeholder, options, parent_form) ==
    [id |-> id, tag |-> tag, text |-> label, label |-> label, selector |-> selector,
     input_type |-> input_type, placeholder |-> placeholder, options |-> options,
     parent_form |-> parent_form]

\* _selector_from_dict(d)
_selector_from_dict(d) ==
    CASE d.type = "attributeValueSelector" ->
           [type |-> "attributeValueSelector", attribute |-> d.attribute,
            value |-> d.value, case_sensitive |-> d.case_sensitive]
      [] d.type = "tagContainsSelector" ->
           [type |-> "tagContainsSelector", attribute |-> "",
            value |-> d.value, case_sensitive |-> d.case_sensitive]
      [] d.type = "xpathSelector" ->
           [type |-> "xpathSelector", attribute |-> "",
            value |-> d.value, case_sensitive |-> d.case_sensitive]
      [] OTHER ->
           [type |-> "tagContainsSelector", attribute |-> "",
            value |-> d.value, case_sensitive |-> FALSE]

(***************************************************************************)
(* Actions (models/actions.py): one record shape for the five variants.    *)
(***************************************************************************)
ClickAction(selector) ==
    [type |-> "ClickAction", selector |-> selector, text |-> << >>, url |-> << >>,
     down |-> FALSE, up |-> FALSE]
TypeAction(selector, text) ==
    [type |-> "TypeAction", selector |-> selector, text |-> text, url |-> << >>,
     down |-> FALSE, up |-> FALSE]
SelectDropDownOptionAction(selector, text) ==
    [type |-> "SelectDropDownOptionAction", selector |-> selector, text |-> text,
     url |-> << >>, down |-> FALSE, up |-> FALSE]
NavigateAction(url) ==
    [type |-> "NavigateAction", selector |-> NoSelector, text |-> << >>, url |-> url,
     down |-> FALSE, up |-> FALSE]
ScrollAction(down, up) ==
    [type |-> "ScrollAction", selector |-> NoSelector, text |-> << >>, url |-> << >>,
     down |-> down, up |-> up]
NoAction ==
    [type |-> "-", selector |-> NoSelector, text |-> << >>, url |-> << >>,
     down |-> FALSE, up |-> FALSE]

(***************************************************************************)
(* Decisions: the dict {action, candidate_id, text, url} of Python values. *)
(***************************************************************************)
Decision(action, candidate_id, text, url) ==
    [action |-> action, candidate_id |-> candidate_id, text |-> text, url |-> url]

NoDecision == Decision(PyMissing, PyMissing, PyMissing, PyMissing)

\* action == "<name>" for a Python value action
Is(action, name) == action.t = "str" /\ action.s = name

\* The outcome of a call that returns a decision, returns None, or raises.
Fixed(d) == [kind |-> "ok", d |-> d, exc |-> "-"]
FixedNone == [kind |-> "none", d |-> NoDecision, exc |-> "-"]
FixedRaise(e) == [kind |-> "raise", d |-> NoDecision, exc |-> e]

\* re.match(r"\d{4}-\d{2}-\d{2}", s): the pattern matches a prefix of s.
MatchesDate(s) ==
    /\ Len(s) >= 10
    /\ \A i \in {1, 2, 3, 4, 6, 7, 9, 10} : s[i] \in Digits
    /\ s[5] = "-"
    /\ s[8] = "-"

\* Mutant of InferTypeText: the label rule is tried before the password rule.
InferTypeText_LabelFirst(d, candidate) ==
    IF \/ Contains(Lower(candidate.label), s_user)
       \/ Contains(Lower(candidate.label), s_email)
    THEN Fixed([d EXCEPT !.text = PyStr(s_username_ph)])
    ELSE IF candidate.input_type = "password"
    THEN Fixed([d EXCEPT !.text = PyStr(s_password_ph)])
    ELSE IF /\ candidate.input_type = "date"
            /\ candidate.placeholder # << >>
            /\ MatchesDate(Strip(candidate.placeholder))
    THEN Fixed([d EXCEPT !.text = PyStr(Strip(candidate.placeholder))])
    ELSE IF Contains(candidate.placeholder, s_at)
    THEN Fixed([d EXCEPT !.text = PyStr(s_username_ph)])
    ELSE FixedNone

\* The branch "if not text" of a type decision (lines 184-198).
InferTypeText(d, candidate) ==
    IF candidate.input_type = "password"
    THEN Fixed([d EXCEPT !.text = PyStr(s_password_ph)])
    ELSE IF \/ Contains(Lower(candidate.label), s_user)
            \/ Contains(Lower(candidate.label), s_email)
    THEN Fixed([d EXCEPT !.text = PyStr(s_username_ph)])
    ELSE IF /\ candidate.input_type = "date"
            /\ candidate.placeholder # << >>
            /\ MatchesDate(Strip(candidate.placeholder))
    THEN Fixed([d EXCEPT !.text = PyStr(Strip(candidate.placeholder))])
    ELSE IF Contains(candidate.placeholder, s_at)
    THEN Fixed([d EXCEPT !.text = PyStr(s_username_ph)])
    ELSE FixedNone

\* validate_and_fix from the range check on (lines 174-207), cid = int(raw_cid).
ValidateCandidate(d, cands, cid) ==
    IF cid < 0 \/ cid >= Len(cands) THEN FixedNone
    ELSE IF Is(d.action, s_click) THEN Fixed(d)
    ELSE IF Is(d.action, s_type)
    THEN IF ~Truthy(Get(d, "text", PyStr(<< >>)))
         THEN InferTypeText(d, cands[cid + 1])
         ELSE Fixed(d)
    ELSE \* select
         IF ~Truthy(Get(d, "text", PyStr(<< >>)))
         THEN IF cands[cid + 1].options # << >>
              THEN Fixed([d EXCEPT !.text = PyStr(cands[cid + 1].options[1])])
              ELSE FixedNone
         ELSE Fixed(d)

\* "try: cid = int(raw_cid) except (ValueError, TypeError): return None"
Coerced(d, cands, cid) ==
    IF ~cid.ok
    THEN IF cid.exc \in {"ValueError", "TypeError"} THEN FixedNone
         ELSE FixedRaise(cid.exc)
    ELSE ValidateCandidate(d, cands, cid.n)

\* Mutant of Coerced: an id past the end is matched to the last candidate.
Coerced_Nearest(d, cands, cid) ==
    IF ~cid.ok
    THEN IF cid.exc \in {"ValueError", "TypeError"} THEN FixedNone
         ELSE FixedRaise(cid.exc)
    ELSE IF cid.n >= Len(cands) /\ cands # << >>
    THEN ValidateCandidate(d, cands, Len(cands) - 1)
    ELSE ValidateCandidate(d, cands, cid.n)

\* Mutant of validate_and_fix: nearest-id matching for an out-of-range id.
validate_and_fix_Nearest(d, cands) ==
    IF \E a \in {s_done, s_scroll_down, s_scroll_up, s_navigate} :
            Is(Get(d, "action", PyStr(<< >>)), a)
    THEN Fixed(d)
    ELSE IF \E a \in {s_click, s_type, s_select} : Is(Get(d, "action", PyStr(<< >>)), a)
    THEN Coerced_Nearest(d, cands, PyIntOf(Get(d, "candidate_id", PyInt(-1))))
    ELSE FixedNone

\* validate_and_fix(decision, candidates)
validate_and_fix(d, cands) ==
    IF \E a \in {s_done, s_scroll_down, s_scroll_up, s_navigate} :
            Is(Get(d, "action", PyStr(<< >>)), a)
    THEN Fixed(d)
    ELSE IF \E a \in {s_click, s_type, s_select} : Is(Get(d, "action", PyStr(<< >>)), a)
    THEN Coerced(d, cands, PyIntOf(Get(d, "candidate_id", PyInt(-1))))
    ELSE FixedNone

(***************************************************************************)
(* build_action                                                            *)
(***************************************************************************)
submit_keywords ==
    << <<"s", "u", "b", "m", "i", "t">>, <<"l", "o", "g", " ", "i", "n">>,
       <<"s", "i", "g", "n", " ", "i", "n">>, <<"l", "o", "g", "i", "n">>,
       <<"s", "i", "g", "n", "i", "n">> >>

\* (c.label or c.text or "").lower()
LabelOrText(c) == Lower(IF c.label # << >> THEN c.label ELSE c.text)

\* any(kw in label for kw in keywords)
AnyKeyword(label, keywords) ==
    \E i \in 1..Len(keywords) : Contains(label, keywords[i])

Returned(a) == [kind |-> "action", action |-> a, exc |-> "-"]
ReturnedNone == [kind |-> "none", action |-> NoAction, exc |-> "-"]
Raised(e) == [kind |-> "raise", action |-> NoAction, exc |-> e]

\* Mutant of Fallback: the keyword search is skipped.
Fallback_FirstOnly(cands, step_index) ==
    IF step_index < 5 /\ cands # << >>
    THEN Returned(ClickAction(_selector_from_dict(cands[1].selector)))
    ELSE Returned(ScrollAction(TRUE, FALSE))

\* The branch "if fixed is None" of build_action (lines 237-250).
Fallback(cands, step_index) ==
    IF step_index < 5 /\ cands # << >>
    THEN IF \E i \in 1..Len(cands) : AnyKeyword(LabelOrText(cands[i]), submit_keywords)
         THEN LET i == SetMin({j \in 1..Len(cands) :
                                 AnyKeyword(LabelOrText(cands[j]), submit_keywords)})
              IN  Returned(ClickAction(_selector_from_dict(cands[i].selector)))
         ELSE Returned(ClickAction(_selector_from_dict(cands[1].selector)))
    ELSE Returned(ScrollAction(TRUE, FALSE))

\* "if _same_path_query(final_url, current_url): return ScrollAction(down)"
GuardSame(final_url, same) ==
    IF ~same.ok THEN Raised("ValueError")
    ELSE IF same.same THEN Returned(ScrollAction(TRUE, FALSE))
    ELSE Returned(NavigateAction(final_url))

\* "final_url = preserve_seed(normalized, current_url)"
Seeded(final_url, current_url) ==
    IF ~final_url.ok THEN Raised("ValueError")
    ELSE GuardSame(final_url.url, _same_path_query(final_url.url, current_url))

\* "normalized = normalize_url(raw_url)"
Normalized(normalized, current_url) ==
    IF ~normalized.ok THEN Raised("ValueError")
    ELSE Seeded(preserve_seed(normalized.url, current_url), current_url)

\* The branch "if action == 'navigate'" of build_action (lines 265-272).
Navigate(fixed, current_url) ==
    IF Truthy(Get(fixed, "url", PyStr(<< >>))) /\ Get(fixed, "url", PyStr(<< >>)).t # "str"
    THEN Raised("AttributeError")
    ELSE Normalized(normalize_url(Get(fixed, "url", PyStr(<< >>))), current_url)

\* candidates[cid] for a Python list: negative indices count from the end,
\* an index outside the list raises IndexError.
InRange(cands, cid) == 0 - Len(cands) <= cid /\ cid < Len(cands)
Item(cands, cid) == IF cid >= 0 THEN cands[cid + 1] ELSE cands[Len(cands) + cid + 1]

\* The branch "if action in ('click', 'type', 'select')" (lines 275-292).
OnCandidate(fixed, cands) ==
    LET action == Get(fixed, "action", PyStr(<< >>))
        cid == PyIntOf(fixed.candidate_id)
        selector == _selector_from_dict(Item(cands, cid.n).selector)
        text == Get(fixed, "text", PyStr(<< >>))
    IN  IF fixed.candidate_id.t = "missing" THEN Raised("KeyError")
        ELSE IF ~cid.ok THEN Raised(cid.exc)
        ELSE IF ~InRange(cands, cid.n) THEN Raised("IndexError")
        ELSE IF Is(action, s_click) THEN Returned(ClickAction(selector))
        ELSE IF text.t # "str" THEN Raised("ValidationError")
        ELSE IF Is(action, s_type) THEN Returned(TypeAction(selector, text.s))
        ELSE Returned(SelectDropDownOptionAction(selector, text.s))

\* build_action(decision, candidates, current_url, step_index=step_index)
build_action(d, cands, current_url, step_index) ==
    LET fixed == validate_and_fix(d, cands)
        action == Get(fixed.d, "action", PyStr(<< >>))
    IN  IF fixed.kind = "raise" THEN Raised(fixed.exc)
        ELSE IF fixed.kind = "none" THEN Fallback(cands, step_index)
        ELSE IF Is(action, s_done) THEN ReturnedNone
        ELSE IF Is(action, s_scroll_down) THEN Returned(ScrollAction(TRUE, FALSE))
        ELSE IF Is(action, s_scroll_up) THEN Returned(ScrollAction(FALSE, TRUE))
        ELSE IF Is(action, s_navigate) THEN Navigate(fixed.d, current_url)
        ELSE IF \E a \in {s_click, s_type, s_select} : Is(action, a)
        THEN OnCandidate(fixed.d, cands)
        ELSE Returned(ScrollAction(TRUE, FALSE))

(***************************************************************************)
(* Inputs.  Each candidate is the record extract_candidates builds for the *)
(* element shown: text = label (candidates.py:173-176), the label is what  *)
(* infer_label gives, the selector what build_selector gives, and a page   *)
(* lists its candidates in extraction order with ids 0..N-1.               *)
(***************************************************************************)
\* <button>Log In</button>
c_login(id) ==
    Candidate(id, "button", <<"L", "o", "g", " ", "I", "n">>,
              Selector("tagContainsSelector", "", <<"L", "o", "g", " ", "I", "n">>),
              "", << >>, << >>, << >>)
\* <button>Cancel</button>
c_cancel(id) ==
    Candidate(id, "button", <<"C", "a", "n", "c", "e", "l">>,
              Selector("tagContainsSelector", "", <<"C", "a", "n", "c", "e", "l">>),
              "", << >>, << >>, << >>)
\* <a href="/home">Home</a>
c_home(id) ==
    Candidate(id, "a", <<"H", "o", "m", "e">>,
              Selector("attributeValueSelector", "href", <<"/", "h", "o", "m", "e">>),
              "", << >>, << >>, << >>)
\* <a href="/login">LOGIN</a>
c_loginlink(id) ==
    Candidate(id, "a", <<"L", "O", "G", "I", "N">>,
              Selector("attributeValueSelector", "href", <<"/", "l", "o", "g", "i", "n">>),
              "", << >>, << >>, << >>)
\* <input id="u" type="text" aria-label="Username">
c_user(id) ==
    Candidate(id, "input", <<"U", "s", "e", "r", "n", "a", "m", "e">>,
              Selector("attributeValueSelector", "id", <<"u">>),
              "text", << >>, << >>, << >>)
\* <input id="p" type="password" aria-label="Password">
c_pass(id) ==
    Candidate(id, "input", <<"P", "a", "s", "s", "w", "o", "r", "d">>,
              Selector("attributeValueSelector", "id", <<"p">>),
              "password", << >>, << >>, << >>)
\* <input type="password" aria-label="user password">
c_pass_user(id) ==
    Candidate(id, "input", <<"u", "s", "e", "r", " ", "p", "a", "s", "s", "w", "o", "r", "d">>,
              Selector("attributeValueSelector", "aria-label", <<"u", "s", "e", "r", " ", "p", "a", "s", "s", "w", "o", "r", "d">>),
              "password", << >>, << >>, << >>)
\* <input type="submit" name="go" aria-label="Submit">
c_submit_in(id) ==
    Candidate(id, "input", <<"S", "u", "b", "m", "i", "t">>,
              Selector("attributeValueSelector", "aria-label", <<"S", "u", "b", "m", "i", "t">>),
              "submit", << >>, << >>, << >>)
\* <input type="text" name="name">
c_name(id) ==
    Candidate(id, "input", << >>,
              Selector("attributeValueSelector", "name", <<"n", "a", "m", "e">>),
              "text", << >>, << >>, << >>)
\* <input type="text" name="mail" placeholder="a@b">
c_mail(id) ==
    Candidate(id, "input", <<"a", "@", "b">>,
              Selector("attributeValueSelector", "name", <<"m", "a", "i", "l">>),
              "text", <<"a", "@", "b">>, << >>, << >>)
\* <input type="date" placeholder=" 2024-01-01 ">
c_date_pad(id) ==
    Candidate(id, "input", <<"2", "0", "2", "4", "-", "0", "1", "-", "0", "1">>,
              Selector("attributeValueSelector", "placeholder", <<" ", "2", "0", "2", "4", "-", "0", "1", "-", "0", "1", " ">>),
              "date", <<" ", "2", "0", "2", "4", "-", "0", "1", "-", "0", "1", " ">>, << >>, << >>)
\* <input type="date" id="d2" placeholder="2024-01-01">
c_date(id) ==
    Candidate(id, "input", <<"2", "0", "2", "4", "-", "0", "1", "-", "0", "1">>,
              Selector("attributeValueSelector", "id", <<"d", "2">>),
              "date", <<"2", "0", "2", "4", "-", "0", "1", "-", "0", "1">>, << >>, << >>)
\* <input type="date" aria-label="User date" placeholder="2024-01-01">
c_date_user(id) ==
    Candidate(id, "input", <<"U", "s", "e", "r", " ", "d", "a", "t", "e">>,
              Selector("attributeValueSelector", "aria-label", <<"U", "s", "e", "r", " ", "d", "a", "t", "e">>),
              "date", <<"2", "0", "2", "4", "-", "0", "1", "-", "0", "1">>, << >>, << >>)
\* <input type="date" id="d3" placeholder="2024-01-01@">
c_date_at(id) ==
    Candidate(id, "input", <<"2", "0", "2", "4", "-", "0", "1", "-", "0", "1", "@">>,
              Selector("attributeValueSelector", "id", <<"d", "3">>),
              "date", <<"2", "0", "2", "4", "-", "0", "1", "-", "0", "1", "@">>, << >>, << >>)
\* <input type="date" id="d4" placeholder="a@b">
c_date_mail(id) ==
    Candidate(id, "input", <<"a", "@", "b">>,
              Selector("attributeValueSelector", "id", <<"d", "4">>),
              "date", <<"a", "@", "b">>, << >>, << >>)
\* <input type="date" name="when" placeholder="soon">
c_date_soon(id) ==
    Candidate(id, "input", <<"s", "o", "o", "n">>,
              Selector("attributeValueSelector", "name", <<"w", "h", "e", "n">>),
              "date", <<"s", "o", "o", "n">>, << >>, << >>)
\* <select name="color"><option>Red</option><option>Blue</option></select>
c_color(id) ==
    Candidate(id, "select", << >>,
              Selector("attributeValueSelector", "name", <<"c", "o", "l", "o", "r">>),
              "", << >>, <<<<"R", "e", "d">>, <<"B", "l", "u", "e">>>>, << >>)
\* <select name="size"></select>
c_size(id) ==
    Candidate(id, "select", << >>,
              Selector("attributeValueSelector", "name", <<"s", "i", "z", "e">>),
              "", << >>, << >>, << >>)

MaxStep == 5    \* step_index ranges over 0..MaxStep
MaxCid == 4     \* integer candidate ids range over -1..MaxCid

Pages ==
    { << >>,
      <<c_home(0)>>,
      <<c_login(0), c_user(1), c_pass(2)>>,
      <<c_cancel(0), c_loginlink(1), c_submit_in(2)>>,
      <<c_date_pad(0), c_date(1), c_date_user(2), c_date_at(3)>>,
      <<c_pass_user(0), c_date_mail(1), c_date_soon(2), c_mail(3)>>,
      <<c_name(0), c_color(1), c_size(2)>> }

StepIndexes == 0..MaxStep

CandidateIds ==
    {PyMissing, PyNone, PyInf, PyList, PyFloat(1),
     PyStr(<<"1">>), PyStr(<<" ", "2", " ">>), PyStr(<<"a", "b", "c">>)}
      \cup {PyInt(k) : k \in -1..MaxCid}

Texts == {PyMissing, PyNone, PyStr(<< >>), PyStr(<<"h", "i">>)}

u_x == <<"/", "x">>
u_rel == <<"x">>
u_abs == <<"h", "t", "t", "p", ":", "/", "/", "h", "/", "x", "?", "a", "=", "1", "#", "f">>
u_proto == <<"/", "/", "h", "/", "x">>
u_bracket == <<"h", "t", "t", "p", ":", "/", "/", "[">>
u_seeded == <<"/", "x", "?", "s", "e", "e", "d", "=", "9">>
u_other == <<"/", "y", "?", "a", "=", "1">>
u_here == <<"h", "t", "t", "p", ":", "/", "/", "l", "o", "c", "a", "l", "h", "o", "s", "t", "/", "x">>
u_here_seed ==
    <<"h", "t", "t", "p", ":", "/", "/", "l", "o", "c", "a", "l", "h", "o", "s", "t", "/", "x",
      "?", "s", "e", "e", "d", "=", "1", "&", "v", "a", "l", "i", "d", "a", "t", "o", "r", "_",
      "i", "d", "=", "v">>

DecisionUrls ==
    {PyMissing, PyNone, PyStr(<< >>), PyStr(u_x), PyStr(u_rel), PyStr(u_abs),
     PyStr(u_proto), PyStr(u_bracket), PyStr(u_seeded), PyStr(u_other)}

CurrentUrls == {<< >>, u_here, u_here_seed}

CandidateActionNames == {s_click, s_type, s_select}
OtherActions ==
    {PyStr(s_done), PyStr(s_scroll_down), PyStr(s_scroll_up), PyStr(s_wait),
     PyNone, PyMissing}

\* The decisions build_action is applied to.
BuildDecisions ==
    {Decision(PyStr(a), c, x, PyMissing) :
        a \in CandidateActionNames, c \in CandidateIds, x \in Texts}
      \cup {Decision(PyStr(s_navigate), PyMissing, PyMissing, u) : u \in DecisionUrls}
      \cup {Decision(a, c, PyMissing, PyMissing) :
              a \in OtherActions, c \in {PyMissing, PyStr(<<"a", "b", "c">>)}}

(***************************************************************************)
(* SpecBuild: build_action as a pure function of its four arguments.       *)
(***************************************************************************)
NoRequest ==
    [task_id |-> "-", prompt |-> {}, page |-> << >>, url |-> << >>, step_index |-> 0,
     history |-> << >>]
NoResponse == [kind |-> "-", actions |-> << >>, exc |-> "-"]

DecideQuiet ==
    /\ request = NoRequest
    /\ candidates = << >>
    /\ pc = "idle"
    /\ attempt = 0
    /\ llm_calls = 0
    /\ replies = << >>
    /\ decision = FixedNone
    /\ response = NoResponse
    /\ served = 0
    /\ d_steps = << >>

LoopQuiet ==
    /\ _TASK_STATE = [x \in {} |-> 0]
    /\ calls = << >>
    /\ hint = "-"

ActQuiet == inflight = << >>

ExtractQuiet ==
    /\ x_soup = << >>
    /\ x_candidates = << >>
    /\ x_nodes = << >>
    /\ x_pc = "-"

SelectorQuiet ==
    /\ sel_in = << >>
    /\ sel_out = << >>

PageIRQuiet ==
    /\ ir_in = << >>
    /\ ir_out = << >>

UrlQuiet ==
    /\ u_in = << >>
    /\ u_out = << >>

LabelQuiet ==
    /\ lb_in = << >>
    /\ lb_out = << >>

ContextQuiet ==
    /\ cx_in = << >>
    /\ cx_out = << >>

ClientQuiet ==
    /\ c_log = << >>
    /\ c_pc = "-"

FnQuiet == UrlQuiet /\ LabelQuiet /\ ContextQuiet /\ ClientQuiet

ExtQuiet == ActQuiet /\ ExtractQuiet /\ SelectorQuiet /\ PageIRQuiet /\ FnQuiet

InitBuild ==
    /\ b_decision \in BuildDecisions
    /\ b_candidates \in Pages
    /\ b_step \in StepIndexes
    /\ b_url \in CurrentUrls
    /\ (Is(b_decision.action, s_navigate) \/ b_url = u_here)
    /\ b_fixed = FixedNone
    /\ b_result = ReturnedNone
    /\ b_pc = "input"
    /\ DecideQuiet
    /\ ExtQuiet
    /\ LoopQuiet

\* build_action(b_decision, b_candidates, b_url, step_index=b_step)
CallBuildAction ==
    /\ b_pc = "input"
    /\ b_fixed' = validate_and_fix(b_decision, b_candidates)
    /\ b_result' = build_action(b_decision, b_candidates, b_url, b_step)
    /\ b_pc' = "called"
    /\ UNCHANGED <<b_decision, b_candidates, b_url, b_step>>
    /\ UNCHANGED <<decideVars, loopVars, extVars>>

NextBuild == CallBuildAction

SpecBuild == InitBuild /\ [][NextBuild]_vars

(***************************************************************************)
(* Properties of build_action and validate_and_fix, stated on SpecBuild.   *)
(***************************************************************************)
\* C1: build_action is total: for every decision dict, candidate list,
\* current URL and step index it never raises, and it returns None exactly
\* when the validated decision's action is done.
C1_BuildActionTotal ==
    b_pc = "called" =>
        /\ b_result.kind # "raise"
        /\ b_result.kind = "none" <=>
              (b_fixed.kind = "ok" /\ Is(b_fixed.d.action, s_done))

\* C7: for a click, type or select decision, validate_and_fix returns the
\* decision only if int() coerces candidate_id to a k with
\* 0 <= k < len(candidates), and the action built from it is of the
\* decision's kind and carries exactly the selector of candidates[k].
C7_CandidateIdResolves ==
    (/\ b_pc = "called"
     /\ \E a \in CandidateActionNames : Is(b_decision.action, a)
     /\ b_fixed.kind = "ok") =>
        LET k == PyIntOf(Get(b_decision, "candidate_id", PyInt(-1)))
        IN  /\ k.ok
            /\ 0 <= k.n
            /\ k.n < Len(b_candidates)
            /\ b_result.kind = "action"
            /\ b_result.action.type =
                  (CASE Is(b_decision.action, s_click) -> "ClickAction"
                     [] Is(b_decision.action, s_type) -> "TypeAction"
                     [] OTHER -> "SelectDropDownOptionAction")
            /\ b_result.action.selector = b_candidates[k.n + 1].selector

\* A type decision on the last candidate of a four-candidate page was
\* accepted and built into a TypeAction on that candidate's selector.
C7_Witness ==
    /\ b_pc = "called"
    /\ Is(b_decision.action, s_type)
    /\ b_decision.candidate_id = PyInt(3)
    /\ Len(b_candidates) = 4
    /\ b_fixed.kind = "ok"
    /\ b_result.kind = "action"
    /\ b_result.action.type = "TypeAction"
    /\ b_result.action.selector = b_candidates[4].selector

C9_AsStated ==
    (/\ b_pc = "called"
     /\ \E a \in {s_type, s_select} : Is(b_decision.action, a)
     /\ PyIntOf(Get(b_decision, "candidate_id", PyInt(-1))).ok
     /\ PyIntOf(Get(b_decision, "candidate_id", PyInt(-1))).n \in 0..(Len(b_candidates) - 1)) =>
        LET c == b_candidates[PyIntOf(Get(b_decision, "candidate_id", PyInt(-1))).n + 1]
            text == Get(b_decision, "text", PyStr(<< >>))
            gives(x) == b_fixed.kind = "ok" /\ b_fixed.d.text = PyStr(x)
        IN  IF Truthy(text) THEN b_fixed.kind = "ok" /\ b_fixed.d.text = b_decision.text
            ELSE IF Is(b_decision.action, s_select)
            THEN IF c.options # << >> THEN gives(c.options[1]) ELSE b_fixed.kind = "none"
            ELSE IF c.input_type = "password" THEN gives(s_password_ph)
            ELSE IF Contains(Lower(c.label), s_user) \/ Contains(Lower(c.label), s_email)
            THEN gives(s_username_ph)
            ELSE IF c.input_type = "date" /\ Len(c.placeholder) = 10 /\ MatchesDate(c.placeholder)
            THEN gives(c.placeholder)
            ELSE IF Contains(c.placeholder, s_at) THEN gives(s_username_ph)
            ELSE b_fixed.kind = "none"

\* C9 amended: as C9, except that the date rule applies to a date-type
\* candidate whose placeholder, stripped of surrounding whitespace, begins
\* with YYYY-MM-DD, and gives the stripped placeholder.
C9_StrippedPlaceholder ==
    (/\ b_pc = "called"
     /\ \E a \in {s_type, s_select} : Is(b_decision.action, a)
     /\ PyIntOf(Get(b_decision, "candidate_id", PyInt(-1))).ok
     /\ PyIntOf(Get(b_decision, "candidate_id", PyInt(-1))).n \in 0..(Len(b_candidates) - 1)) =>
        LET c == b_candidates[PyIntOf(Get(b_decision, "candidate_id", PyInt(-1))).n + 1]
            text == Get(b_decision, "text", PyStr(<< >>))
            gives(x) == b_fixed.kind = "ok" /\ b_fixed.d.text = PyStr(x)
        IN  IF Truthy(text) THEN b_fixed.kind = "ok" /\ b_fixed.d.text = b_decision.text
            ELSE IF Is(b_decision.action, s_select)
            THEN IF c.options # << >> THEN gives(c.options[1]) ELSE b_fixed.kind = "none"
            ELSE IF c.input_type = "password" THEN gives(s_password_ph)
            ELSE IF Contains(Lower(c.label), s_user) \/ Contains(Lower(c.label), s_email)
            THEN gives(s_username_ph)
            ELSE IF c.input_type = "date" /\ MatchesDate(Strip(c.placeholder))
            THEN gives(Strip(c.placeholder))
            ELSE IF Contains(c.placeholder, s_at) THEN gives(s_username_ph)
            ELSE b_fixed.kind = "none"

\* A type decision with empty text on <input type="date"
\* placeholder=" 2024-01-01 "> got the text "2024-01-01".
C9_Witness ==
    /\ b_pc = "called"
    /\ Is(b_decision.action, s_type)
    /\ ~Truthy(Get(b_decision, "text", PyStr(<< >>)))
    /\ b_decision.candidate_id = PyInt(0)
    /\ b_candidates # << >>
    /\ b_candidates[1] = c_date_pad(0)
    /\ b_fixed.kind = "ok"
    /\ b_fixed.d.text = PyStr(<<"2", "0", "2", "4", "-", "0", "1", "-", "0", "1">>)

(***************************************************************************)
(* agent/state.py: the per-task loop-detection state.  _TASK_STATE is a    *)
(* function whose domain is the set of task ids that have an entry.        *)
(***************************************************************************)
s_none == <<"N", "o", "n", "e">>
s_question == <<"?">>

\* str(n) for an integer n
RECURSIVE Decimal(_)
Decimal(n) ==
    IF n < 0 THEN <<"-">> \o Decimal(0 - n)
    ELSE IF n < 10 THEN <<(<<"0", "1", "2", "3", "4", "5", "6", "7", "8", "9">>)[n + 1]>>
    ELSE Decimal(n \div 10) \o Decimal(n % 10)

\* f"{v}" for a Python value v
Format(v) ==
    CASE v.t = "str" -> v.s
      [] v.t = "int" -> Decimal(v.n)
      [] v.t = "none" -> s_none
      [] OTHER -> <<"?", "?">>

\* get_action_signature(decision)
get_action_signature(d) ==
    IF \E a \in {s_click, s_type, s_select} : Is(Get(d, "action", PyStr(s_unknown)), a)
    THEN PyStr(Get(d, "action", PyStr(s_unknown)).s \o s_colon
                 \o Format(Get(d, "candidate_id", PyStr(s_question))))
    ELSE IF Is(Get(d, "action", PyStr(s_unknown)), s_navigate)
    THEN PyStr(s_navigate \o s_colon \o Format(Get(d, "url", PyStr(<< >>))))
    ELSE Get(d, "action", PyStr(s_unknown))

\* The entry check_loop creates for a task that has none (lines 40-45).
FreshState == [last_sig |-> PyNone, last_url |-> PyNone, repeat_count |-> 0]

\* state = _TASK_STATE[task_id], after the "if task_id not in _TASK_STATE".
StateOf(ts, task_id) == IF task_id \in DOMAIN ts THEN ts[task_id] ELSE FreshState

\* f"{action_sig}@{url}"
Combo(sig, url) == Format(sig) \o s_at \o Format(url)

\* Mutant of Updated: a repeat does not count.
Updated_NoIncrement(state, url, action_sig) ==
    IF state.last_sig # PyNone /\ Combo(action_sig, url) = Combo(state.last_sig, state.last_url)
    THEN state
    ELSE [last_sig |-> action_sig, last_url |-> url, repeat_count |-> 1]

\* The state record after lines 48-60 of check_loop.
Updated(state, url, action_sig) ==
    IF state.last_sig # PyNone /\ Combo(action_sig, url) = Combo(state.last_sig, state.last_url)
    THEN [state EXCEPT !.repeat_count = @ + 1]
    ELSE [last_sig |-> action_sig, last_url |-> url, repeat_count |-> 1]

\* Mutant of check_loop: the entries of the other tasks expire.
check_loop_Expiring(ts, task_id, url, action_sig) ==
    [state |-> [x \in {task_id} |-> Updated(StateOf(ts, task_id), url, action_sig)],
     hint |-> IF Updated(StateOf(ts, task_id), url, action_sig).repeat_count >= 2
              THEN "hint" ELSE "none"]

\* check_loop(task_id, url, action_sig): the new _TASK_STATE and the value
\* returned, "hint" for the hint string and "none" for None.
check_loop(ts, task_id, url, action_sig) ==
    [state |-> [x \in DOMAIN ts \cup {task_id} |->
                   IF x = task_id THEN Updated(StateOf(ts, task_id), url, action_sig)
                   ELSE ts[x]],
     hint |-> IF Updated(StateOf(ts, task_id), url, action_sig).repeat_count >= 2
              THEN "hint" ELSE "none"]

\* clear_task_state(task_id): _TASK_STATE.pop(task_id, None)
clear_task_state(ts, task_id) == [x \in DOMAIN ts \ {task_id} |-> ts[x]]

(***************************************************************************)
(* SpecLoop: check_loop and clear_task_state called in any order.          *)
(***************************************************************************)
MaxCalls == 4   \* calls made in one behaviour

TaskIds == {"t1", "t2"}

\* Signatures as get_action_signature builds them for navigate decisions.
sig_a == <<"n", "a", "v", "i", "g", "a", "t", "e", ":", "/", "a">>
sig_ab == <<"n", "a", "v", "i", "g", "a", "t", "e", ":", "/", "a", "@", "/", "b">>
LoopSigs == {PyStr(sig_a), PyStr(sig_ab)}

\* Request urls.
url_c == <<"/", "c">>
url_bc == <<"/", "b", "@", "/", "c">>
LoopUrls == {PyStr(url_c), PyStr(url_bc)}

EmptyState == [x \in {} |-> FreshState]

InitLoop ==
    /\ _TASK_STATE = EmptyState
    /\ calls = << >>
    /\ hint = "-"
    /\ b_decision = NoDecision
    /\ b_candidates = << >>
    /\ b_url = << >>
    /\ b_step = 0
    /\ b_fixed = FixedNone
    /\ b_result = ReturnedNone
    /\ b_pc = "-"
    /\ DecideQuiet
    /\ ExtQuiet

\* check_loop(task_id, url, action_sig)
CheckLoop(task_id, url, action_sig) ==
    /\ Len(calls) < MaxCalls
    /\ _TASK_STATE' = check_loop(_TASK_STATE, task_id, url, action_sig).state
    /\ hint' = check_loop(_TASK_STATE, task_id, url, action_sig).hint
    /\ calls' = Append(calls,
                       [op |-> "check", task |-> task_id, sig |-> action_sig, url |-> url,
                        hint |-> hint', repeat_count |-> _TASK_STATE'[task_id].repeat_count])
    /\ UNCHANGED <<buildVars, decideVars, extVars>>

\* clear_task_state(task_id)
ClearTaskState(task_id) ==
    /\ Len(calls) < MaxCalls
    /\ _TASK_STATE' = clear_task_state(_TASK_STATE, task_id)
    /\ calls' = Append(calls,
                       [op |-> "clear", task |-> task_id, sig |-> PyNone, url |-> PyNone,
                        hint |-> "-", repeat_count |-> 0])
    /\ UNCHANGED hint
    /\ UNCHANGED <<buildVars, decideVars, extVars>>

NextLoop ==
    \/ \E task_id \in TaskIds, url \in LoopUrls, sig \in LoopSigs : CheckLoop(task_id, url, sig)
    \/ \E task_id \in TaskIds : ClearTaskState(task_id)

SpecLoop == InitLoop /\ [][NextLoop]_vars

\* C10: for one task_id, over consecutive check_loop calls with an identical
\* (signature, url) pair starting from no stored state, the first call
\* returns no hint and every later one (the second, the third) returns the
\* hint; and each call returns the hint exactly when repeat_count >= 2
\* after its update.
C10_HintOnRepeat ==
    \A i \in 1..Len(calls) :
        calls[i].op = "check" =>
            LET since == {j \in 1..i :
                            /\ calls[j].task = calls[i].task
                            /\ \A m \in j..i :
                                 ~(calls[m].op = "clear" /\ calls[m].task = calls[i].task)}
                identical == \A j \in since :
                                calls[j].sig = calls[i].sig /\ calls[j].url = calls[i].url
            IN  /\ calls[i].hint = "hint" <=> calls[i].repeat_count >= 2
                /\ identical => (calls[i].hint = "hint" <=> Cardinality(since) >= 2)

\* Three identical checks for t1 from a fresh state, another task's check
\* in between: no hint, hint, hint.
C10_Witness ==
    /\ Len(calls) = 4
    /\ \A i \in {1, 2, 4} :
          /\ calls[i].op = "check"
          /\ calls[i].task = "t1"
          /\ calls[i].sig = PyStr(sig_a)
          /\ calls[i].url = PyStr(url_c)
    /\ calls[3].op = "check"
    /\ calls[3].task = "t2"
    /\ calls[1].hint = "none"
    /\ calls[2].hint = "hint"
    /\ calls[4].hint = "hint"
    /\ calls[4].repeat_count = 3

\* C11: for two consecutive check_loop calls of one task whose (signature,
\* url) pairs differ in the signature, the url or both, the second call
\* stores the new pair, sets repeat_count to 1 and returns no hint; and
\* repeat_count grows only when both components equal the previous ones.
C11_DifferentPairResets ==
    LET n == Len(calls)
        prior == {j \in 1..(n - 1) : calls[j].task = calls[n].task}
        last == CHOOSE j \in prior : \A k \in prior : k <= j
    IN  (/\ n >= 2
         /\ calls[n].op = "check"
         /\ prior # {}
         /\ calls[last].op = "check") =>
            /\ (calls[last].sig # calls[n].sig \/ calls[last].url # calls[n].url) =>
                  /\ _TASK_STATE[calls[n].task] =
                        [last_sig |-> calls[n].sig, last_url |-> calls[n].url,
                         repeat_count |-> 1]
                  /\ calls[n].hint = "none"
            /\ calls[n].repeat_count > calls[last].repeat_count =>
                  (calls[last].sig = calls[n].sig /\ calls[last].url = calls[n].url)

(***************************************************************************)
(* llm/parser.py.  The content of a reply is a sequence of tokens and the  *)
(* JSON object the "obj" tokens spell:                                     *)
(*   "ws"    a run of whitespace          "fence"  ```                     *)
(*   "json"  the word json                "prose"  text with no brace,     *)
(*   "obj"   the text of the JSON object           bracket or backtick     *)
(*   "arr"   a JSON value that is not an object and has no brace           *)
(*   "{" "}" "[" "]"  a single brace or bracket                            *)
(***************************************************************************)
IsWs(tok) == tok = "ws"

\* str.strip() on a token sequence
RECURSIVE LStripToks(_)
LStripToks(toks) ==
    IF toks # << >> /\ IsWs(Head(toks)) THEN LStripToks(Tail(toks)) ELSE toks
RECURSIVE RStripToks(_)
RStripToks(toks) ==
    IF toks # << >> /\ IsWs(toks[Len(toks)])
    THEN RStripToks(SubSeq(toks, 1, Len(toks) - 1)) ELSE toks
StripToks(toks) == RStripToks(LStripToks(toks))

Loaded(raw) == [kind |-> "dict", raw |-> raw]
LoadedOther == [kind |-> "other", raw |-> NoDecision]
LoadError == [kind |-> "raise", raw |-> NoDecision]

\* json.loads(text): the object, another JSON value, or JSONDecodeError.
json_loads(toks, payload) ==
    CASE StripToks(toks) = <<"obj">> -> Loaded(payload)
      [] StripToks(toks) \in {<<"{", "}">>, <<"{", "ws", "}">>} -> Loaded(NoDecision)
      [] StripToks(toks) \in {<<"arr">>, <<"[", "]">>, <<"[", "obj", "]">>,
                              <<"[", "arr", "]">>} -> LoadedOther
      [] OTHER -> LoadError

\* Fence stripping (lines 45-53): s after removing the wrappers.
Unfenced(raw) ==
    LET s == IF Len(raw) >= 2 /\ raw[2] = "json"
             THEN SubSeq(raw, 3, Len(raw)) ELSE SubSeq(raw, 2, Len(raw))
    IN  StripToks(IF s # << >> /\ s[Len(s)] = "fence"
                  THEN SubSeq(s, 1, Len(s) - 1) ELSE s)

\* raw[start : end + 1] for start = raw.find("{"), end = raw.rfind("}"),
\* << >> when the test 0 <= start < end fails (lines 62-66).
Extracted(raw) ==
    LET opens == {i \in 1..Len(raw) : raw[i] \in {"obj", "{"}}
        closes == {i \in 1..Len(raw) : raw[i] \in {"obj", "}"}}
    IN  IF opens = {} \/ closes = {} THEN << >>
        ELSE LET start == CHOOSE i \in opens : \A j \in opens : i <= j
                 end == CHOOSE i \in closes : \A j \in closes : i >= j
             IN  IF start <= end THEN SubSeq(raw, start, end) ELSE << >>

\* parse_llm_json(content): the dict parsed, or ValueError (kind "raise").
parse_llm_json(toks, payload) ==
    IF StripToks(toks) = << >> THEN LoadError
    ELSE IF json_loads(StripToks(toks), payload).kind = "dict"
    THEN json_loads(StripToks(toks), payload)
    ELSE IF /\ StripToks(toks)[1] = "fence"
            /\ json_loads(Unfenced(StripToks(toks)), payload).kind = "dict"
    THEN json_loads(Unfenced(StripToks(toks)), payload)
    ELSE IF /\ Extracted(StripToks(toks)) # << >>
            /\ json_loads(Extracted(StripToks(toks)), payload).kind = "dict"
    THEN json_loads(Extracted(StripToks(toks)), payload)
    ELSE LoadError

\* models/decision.py: coerce_candidate_id, the "before" validator.
coerce_candidate_id(v) ==
    IF v.t = "none" THEN PyNone
    ELSE IF PyIntOf(v).ok THEN PyInt(PyIntOf(v).n)
    ELSE PyNone

\* Optional[str]: None for a missing or null field, the string itself;
\* anything else is a validation error.
IsOptionalStr(v) == v.t \in {"missing", "none", "str"}
OrNone(v) == IF v.t = "missing" THEN PyNone ELSE v

\* normalize_decision(raw): the model_dump of the validated LLMDecision,
\* None, or the exception coerce_candidate_id lets through.
normalize_decision(raw) ==
    IF raw.action.t = "missing" THEN FixedNone
    ELSE IF /\ raw.candidate_id.t \notin {"missing", "none"}
            /\ ~PyIntOf(raw.candidate_id).ok
            /\ PyIntOf(raw.candidate_id).exc \notin {"ValueError", "TypeError"}
    THEN FixedRaise(PyIntOf(raw.candidate_id).exc)
    ELSE IF raw.action.t # "str" \/ ~IsOptionalStr(raw.text) \/ ~IsOptionalStr(raw.url)
    THEN FixedNone
    ELSE Fixed(Decision(raw.action,
                        IF raw.candidate_id.t = "missing" THEN PyNone
                        ELSE coerce_candidate_id(raw.candidate_id),
                        OrNone(raw.text), OrNone(raw.url)))

(***************************************************************************)
(* agent/classifier.py.  A prompt is given by the set of positions of      *)
(* _TASK_PATTERNS whose regular expression finds a match in it.            *)
(***************************************************************************)
\* The task type of each entry of _TASK_PATTERNS, in order.
_TASK_PATTERNS ==
    <<"logout", "login", "registration", "contact", "search", "navigation", "crud",
      "form", "checkout", "profile", "subscribe", "download", "share", "booking",
      "contact">>

\* classify_task(prompt): the type of the first pattern that matches.
classify_task(prompt) ==
    IF prompt = {} THEN "unknown" ELSE _TASK_PATTERNS[SetMin(prompt)]

\* The keyword tuples of the detectors.
KW_LOGIN_USER == {<<"u", "s", "e", "r">>, <<"e", "m", "a", "i", "l">>, <<"l", "o", "g", "i", "n">>}
KW_LOGIN_SUBMIT == {<<"l", "o", "g", " ", "i", "n">>, <<"s", "i", "g", "n", " ", "i", "n">>, <<"l", "o", "g", "i", "n">>, <<"s", "u", "b", "m", "i", "t">>, <<"e", "n", "t", "e", "r">>}
KW_LOGOUT == {<<"l", "o", "g", "o", "u", "t">>, <<"l", "o", "g", " ", "o", "u", "t">>, <<"s", "i", "g", "n", " ", "o", "u", "t">>}
KW_REG_USER == {<<"u", "s", "e", "r">>, <<"n", "a", "m", "e">>, <<"l", "o", "g", "i", "n">>}
KW_REG_SUBMIT == {<<"r", "e", "g", "i", "s", "t", "e", "r">>, <<"s", "i", "g", "n", " ", "u", "p">>, <<"c", "r", "e", "a", "t", "e">>, <<"s", "u", "b", "m", "i", "t">>}
KW_CONTACT_NAME == {<<"n", "a", "m", "e">>, <<"y", "o", "u", "r", " ", "n", "a", "m", "e">>, <<"f", "u", "l", "l", " ", "n", "a", "m", "e">>}
KW_CONTACT_SKIP == {<<"s", "u", "b", "j", "e", "c", "t">>, <<"m", "e", "s", "s", "a", "g", "e">>}
KW_CONTACT_SUBMIT == {<<"s", "e", "n", "d">>, <<"s", "u", "b", "m", "i", "t">>, <<"c", "o", "n", "t", "a", "c", "t">>}
KW_SEARCH_INPUT == {<<"s", "e", "a", "r", "c", "h">>, <<"q", "u", "e", "r", "y">>}
KW_SEARCH_SUBMIT == {<<"s", "e", "a", "r", "c", "h">>, <<"g", "o">>, <<"s", "u", "b", "m", "i", "t">>, <<"f", "i", "n", "d">>, <<"q", "u", "e", "r", "y">>}

\* any(kw in label for kw in keywords), keywords a set
ContainsAny(label, keywords) == \E kw \in keywords : Contains(label, kw)

\* The id of the first candidate satisfying P, None when there is none.
FirstId(cands, P(_)) ==
    IF \E i \in 1..Len(cands) : P(cands[i])
    THEN PyInt(cands[SetMin({i \in 1..Len(cands) : P(cands[i])})].id)
    ELSE PyNone

\* c.tag == "button" or (c.tag == "input" and c.input_type == "submit")
IsSubmitElement(c) == c.tag = "button" \/ (c.tag = "input" /\ c.input_type = "submit")

\* The second loop of a detector: the first submit element whose label has
\* a keyword, else the first submit element satisfying the fallback test.
SubmitId(cands, keywords, Fallback_(_)) ==
    IF FirstId(cands, LAMBDA c : IsSubmitElement(c) /\ ContainsAny(LabelOrText(c), keywords)) # PyNone
    THEN FirstId(cands, LAMBDA c : IsSubmitElement(c) /\ ContainsAny(LabelOrText(c), keywords))
    ELSE FirstId(cands, LAMBDA c : IsSubmitElement(c) /\ Fallback_(c))

NoFields == [found |-> FALSE]

\* parent_form of the first password candidate, << >> when there is none.
PasswordForm(cands) ==
    IF \E i \in 1..Len(cands) : cands[i].input_type = "password"
    THEN cands[SetMin({i \in 1..Len(cands) : cands[i].input_type = "password"})].parent_form
    ELSE << >>

\* detect_login_fields(candidates)
detect_login_fields(cands) ==
    LET username_id == FirstId(cands, LAMBDA c :
                          /\ c.input_type # "password"
                          /\ c.tag = "input"
                          /\ c.input_type \in {"text", "email", ""}
                          /\ ContainsAny(Lower(c.label), KW_LOGIN_USER))
        password_id == FirstId(cands, LAMBDA c : c.input_type = "password")
        submit_id == SubmitId(cands, KW_LOGIN_SUBMIT,
                              LAMBDA c : /\ PasswordForm(cands) # << >>
                                         /\ c.parent_form = PasswordForm(cands))
    IN  IF username_id # PyNone /\ password_id # PyNone /\ submit_id # PyNone
        THEN [found |-> TRUE, username_id |-> username_id, password_id |-> password_id,
              submit_id |-> submit_id]
        ELSE NoFields

s_email_ph == <<"<", "e", "m", "a", "i", "l", ">">>
s_search_query == <<"<", "s", "e", "a", "r", "c", "h", "_", "q", "u", "e", "r", "y", ">">>
s_test_user == <<"T", "e", "s", "t", " ", "U", "s", "e", "r">>
s_test_email == <<"t", "e", "s", "t", "@", "e", "x", "a", "m", "p", "l", "e", ".", "c", "o", "m">>
s_test_message == <<"H", "e", "l", "l", "o", ",", " ", "t", "h", "i", "s", " ", "i", "s", " ", "a", " ", "t", "e", "s", "t", " ", "m", "e", "s", "s", "a", "g", "e", ".">>

NoDict == [found |-> FALSE, d |-> NoDecision]
TypeDict(cid, text) ==
    [found |-> TRUE, d |-> Decision(PyStr(s_type), cid, PyStr(text), PyMissing)]
ClickDict(cid) ==
    [found |-> TRUE, d |-> Decision(PyStr(s_click), cid, PyMissing, PyMissing)]

\* steps[step_index] if step_index < len(steps) else None, step_index >= 0
StepOf(steps, step_index) ==
    IF step_index < Len(steps) THEN steps[step_index + 1] ELSE NoDict

\* Mutant of get_login_action: the password is typed first.
get_login_action_PasswordFirst(step_index, fields) ==
    CASE step_index = 0 -> TypeDict(fields.password_id, s_password_ph)
      [] step_index = 1 -> TypeDict(fields.username_id, s_username_ph)
      [] step_index = 2 -> ClickDict(fields.submit_id)
      [] OTHER -> NoDict

\* get_login_action(step_index, fields)
get_login_action(step_index, fields) ==
    CASE step_index = 0 -> TypeDict(fields.username_id, s_username_ph)
      [] step_index = 1 -> TypeDict(fields.password_id, s_password_ph)
      [] step_index = 2 -> ClickDict(fields.submit_id)
      [] OTHER -> NoDict

\* detect_logout_target(candidates): button_id, or None
detect_logout_target(cands) ==
    FirstId(cands, LAMBDA c : /\ c.tag \in {"button", "a", "input"}
                              /\ ContainsAny(LabelOrText(c), KW_LOGOUT))

\* One iteration of the first loop of detect_registration_fields.
RegistrationStep(st, c) ==
    IF c.input_type = "password"
    THEN [st EXCEPT !.password_ids = Append(@, PyInt(c.id))]
    ELSE IF c.tag = "input" /\ c.input_type = "email" /\ st.email_id = PyNone
    THEN [st EXCEPT !.email_id = PyInt(c.id)]
    ELSE IF c.tag = "input" /\ c.input_type \in {"text", ""}
    THEN IF ContainsAny(LabelOrText(c), KW_REG_USER) /\ st.username_id = PyNone
         THEN [st EXCEPT !.username_id = PyInt(c.id)]
         ELSE IF Contains(LabelOrText(c), s_email) /\ st.email_id = PyNone
         THEN [st EXCEPT !.email_id = PyInt(c.id)]
         ELSE st
    ELSE st

RECURSIVE RegistrationScan(_, _)
RegistrationScan(st, cands) ==
    IF cands = << >> THEN st
    ELSE RegistrationScan(RegistrationStep(st, Head(cands)), Tail(cands))

\* The end of detect_registration_fields, from "if not password_ids".
RegistrationFields(st, submit_id) ==
    IF st.password_ids = << >> \/ submit_id = PyNone THEN NoFields
    ELSE IF st.username_id = PyNone /\ st.email_id = PyNone THEN NoFields
    ELSE [found |-> TRUE,
          username_id |-> IF st.username_id = PyNone THEN st.email_id ELSE st.username_id,
          email_id |-> IF st.username_id = PyNone THEN PyNone ELSE st.email_id,
          password_id |-> st.password_ids[1],
          confirm_password_id |-> IF Len(st.password_ids) > 1 THEN st.password_ids[2]
                                  ELSE PyNone,
          submit_id |-> submit_id]

\* detect_registration_fields(candidates)
detect_registration_fields(cands) ==
    RegistrationFields(
        RegistrationScan([username_id |-> PyNone, email_id |-> PyNone,
                          password_ids |-> << >>], cands),
        SubmitId(cands, KW_REG_SUBMIT,
                 LAMBDA c : \E i \in 1..Len(cands) : cands[i].input_type = "password"))

\* [x] if present else []
Opt(present, x) == IF present THEN <<x>> ELSE << >>

\* get_registration_action(step_index, fields)
get_registration_action(step_index, fields) ==
    StepOf(<<TypeDict(fields.username_id, s_username_ph)>>
             \o Opt(fields.email_id # PyNone, TypeDict(fields.email_id, s_email_ph))
             \o <<TypeDict(fields.password_id, s_password_ph)>>
             \o Opt(fields.confirm_password_id # PyNone,
                    TypeDict(fields.confirm_password_id, s_password_ph))
             \o <<ClickDict(fields.submit_id)>>,
           step_index)

\* One iteration of the first loop of detect_contact_fields.
ContactStep(st, c) ==
    IF c.tag = "textarea" /\ st.message_id = PyNone
    THEN [st EXCEPT !.message_id = PyInt(c.id)]
    ELSE IF c.tag = "input" /\ c.input_type = "email" /\ st.email_id = PyNone
    THEN [st EXCEPT !.email_id = PyInt(c.id)]
    ELSE IF c.tag = "input" /\ c.input_type \in {"text", ""}
    THEN IF ContainsAny(LabelOrText(c), KW_CONTACT_NAME) /\ st.name_id = PyNone
         THEN [st EXCEPT !.name_id = PyInt(c.id)]
         ELSE IF Contains(LabelOrText(c), s_email) /\ st.email_id = PyNone
         THEN [st EXCEPT !.email_id = PyInt(c.id)]
         ELSE IF ContainsAny(LabelOrText(c), KW_CONTACT_SKIP)
         THEN st
         ELSE IF st.name_id = PyNone
         THEN [st EXCEPT !.name_id = PyInt(c.id)]
         ELSE st
    ELSE st

RECURSIVE ContactScan(_, _)
ContactScan(st, cands) ==
    IF cands = << >> THEN st ELSE ContactScan(ContactStep(st, Head(cands)), Tail(cands))

\* The end of detect_contact_fields, from "if submit_id is None".
ContactFields(st, submit_id) ==
    IF submit_id = PyNone THEN NoFields
    ELSE IF st.name_id = PyNone /\ st.email_id = PyNone /\ st.message_id = PyNone
    THEN NoFields
    ELSE [found |-> TRUE, name_id |-> st.name_id, email_id |-> st.email_id,
          message_id |-> st.message_id, submit_id |-> submit_id]

\* detect_contact_fields(candidates)
detect_contact_fields(cands) ==
    ContactFields(
        ContactScan([name_id |-> PyNone, email_id |-> PyNone, message_id |-> PyNone], cands),
        SubmitId(cands, KW_CONTACT_SUBMIT, LAMBDA c : TRUE))

\* get_contact_action(step_index, fields)
get_contact_action(step_index, fields) ==
    StepOf(Opt(fields.name_id # PyNone, TypeDict(fields.name_id, s_test_user))
             \o Opt(fields.email_id # PyNone, TypeDict(fields.email_id, s_test_email))
             \o Opt(fields.message_id # PyNone, TypeDict(fields.message_id, s_test_message))
             \o <<ClickDict(fields.submit_id)>>,
           step_index)

\* (c.label or c.text or c.placeholder or "").lower()
LabelOrPlaceholder(c) ==
    Lower(IF c.label # << >> THEN c.label
          ELSE IF c.text # << >> THEN c.text ELSE c.placeholder)

IsSearchInput(c) == c.tag = "input" /\ c.input_type \in {"search", "text", ""}

\* detect_search_fields(candidates)
detect_search_fields(cands) ==
    LET labelled == FirstId(cands, LAMBDA c :
                        IsSearchInput(c) /\ ContainsAny(LabelOrPlaceholder(c), KW_SEARCH_INPUT))
        search_input_id == IF labelled # PyNone THEN labelled
                           ELSE FirstId(cands, LAMBDA c : IsSearchInput(c))
        submit_id == SubmitId(cands, KW_SEARCH_SUBMIT, LAMBDA c : FALSE)
    IN  IF search_input_id # PyNone /\ submit_id # PyNone
        THEN [found |-> TRUE, search_input_id |-> search_input_id, submit_id |-> submit_id]
        ELSE NoFields

\* get_search_action(step_index, fields)
get_search_action(step_index, fields) ==
    CASE step_index = 0 -> TypeDict(fields.search_input_id, s_search_query)
      [] step_index = 1 -> ClickDict(fields.submit_id)
      [] OTHER -> NoDict

(***************************************************************************)
(* agent/loop.py: decide.  What one step of decide comes to is an outcome: *)
(*   "return"  an ActResponse is returned     "raise"  an exception escapes*)
(*   "none"    a shortcut does not apply      "retry"  ValueError caught   *)
(*   "break"   the retry loop is left for the fallback after it            *)
(***************************************************************************)
max_retries == 1

Returns(actions, fixed, done) ==
    [kind |-> "return", actions |-> actions, exc |-> "-", fixed |-> fixed, done |-> done]
Raises(e) ==
    [kind |-> "raise", actions |-> << >>, exc |-> e, fixed |-> FixedNone, done |-> FALSE]
NoShortcut ==
    [kind |-> "none", actions |-> << >>, exc |-> "-", fixed |-> FixedNone, done |-> FALSE]
Retry ==
    [kind |-> "retry", actions |-> << >>, exc |-> "ValueError", fixed |-> FixedNone,
     done |-> FALSE]
Break ==
    [kind |-> "break", actions |-> << >>, exc |-> "-", fixed |-> FixedNone, done |-> FALSE]

\* "if action is not None: return ActResponse(actions=[action])" of a shortcut
ShortcutBuilt(result, fixed) ==
    CASE result.kind = "action" -> Returns(<<result.action>>, fixed, FALSE)
      [] result.kind = "raise" -> Raises(result.exc)
      [] OTHER -> NoShortcut

\* "if action_dict is not None: action = build_action(action_dict,
\* candidates, request.url)", step_index defaulting to 99
ShortcutDict(dict, cands, url) ==
    IF ~dict.found THEN NoShortcut
    ELSE ShortcutBuilt(build_action(dict.d, cands, url, 99), validate_and_fix(dict.d, cands))

\* "if task_type == TaskType.LOGIN" (lines 121-138)
LoginShortcut(req) ==
    IF detect_login_fields(req.page).found
    THEN ShortcutDict(get_login_action(req.step_index, detect_login_fields(req.page)),
                      req.page, req.url)
    ELSE NoShortcut

\* type_count and login_done of the logout branch (lines 162-171)
TypeCount(history) ==
    Cardinality({i \in 1..Len(history) : Is(Get(history[i], "action", PyStr(<< >>)), s_type)})
LoginDone(history) ==
    /\ TypeCount(history) >= 2
    /\ \E i \in 1..Len(history) : Is(Get(history[i], "action", PyStr(<< >>)), s_click)

\* Priority 2 of the logout branch: log in first (lines 157-186)
LogoutLoginFirst(req) ==
    IF detect_login_fields(req.page).found /\ ~LoginDone(req.history)
    THEN ShortcutDict(get_login_action(IF TypeCount(req.history) < 2
                                       THEN TypeCount(req.history) ELSE 2,
                                       detect_login_fields(req.page)),
                      req.page, req.url)
    ELSE NoShortcut

\* Priority 1 of the logout branch: click the logout target (lines 142-154)
LogoutClick(req) ==
    IF detect_logout_target(req.page) # PyNone
    THEN ShortcutDict(ClickDict(detect_logout_target(req.page)), req.page, req.url)
    ELSE NoShortcut

\* "if task_type == TaskType.LOGOUT" (lines 140-186)
LogoutShortcut(req) ==
    IF LogoutClick(req).kind # "none" THEN LogoutClick(req) ELSE LogoutLoginFirst(req)

\* "if task_type == TaskType.REGISTRATION" (lines 188-203)
RegistrationShortcut(req) ==
    IF detect_registration_fields(req.page).found
    THEN ShortcutDict(get_registration_action(req.step_index,
                                              detect_registration_fields(req.page)),
                      req.page, req.url)
    ELSE NoShortcut

\* "if task_type == TaskType.CONTACT" (lines 205-220)
ContactShortcut(req) ==
    IF detect_contact_fields(req.page).found
    THEN ShortcutDict(get_contact_action(req.step_index, detect_contact_fields(req.page)),
                      req.page, req.url)
    ELSE NoShortcut

\* "if task_type == TaskType.SEARCH" (lines 222-237)
SearchShortcut(req) ==
    IF detect_search_fields(req.page).found
    THEN ShortcutDict(get_search_action(req.step_index, detect_search_fields(req.page)),
                      req.page, req.url)
    ELSE NoShortcut

\* Step 3 of decide: the pre-LLM bypass for the classified task type.
Shortcut(req) ==
    CASE classify_task(req.prompt) = "login" -> LoginShortcut(req)
      [] classify_task(req.prompt) = "logout" -> LogoutShortcut(req)
      [] classify_task(req.prompt) = "registration" -> RegistrationShortcut(req)
      [] classify_task(req.prompt) = "contact" -> ContactShortcut(req)
      [] classify_task(req.prompt) = "search" -> SearchShortcut(req)
      [] OTHER -> NoShortcut

\* Mutant of AfterBuild: the action is returned twice.
AfterBuild_Twice(result, fixed) ==
    CASE result.kind = "none" -> Returns(<< >>, fixed, TRUE)
      [] result.kind = "action" -> Returns(<<result.action, result.action>>, fixed, FALSE)
      [] result.exc \in {"ValueError", "ValidationError"} -> Retry
      [] OTHER -> Raises(result.exc)

\* Steps 13-14 of the retry loop, and "except ValueError" for what
\* build_action raised (pydantic's ValidationError is a ValueError).
AfterBuild(result, fixed) ==
    CASE result.kind = "none" -> Returns(<< >>, fixed, TRUE)
      [] result.kind = "action" -> Returns(<<result.action>>, fixed, FALSE)
      [] result.exc \in {"ValueError", "ValidationError"} -> Retry
      [] OTHER -> Raises(result.exc)

\* "decision = normalize_decision(raw_decision); if decision is None: break"
\* and step 12, the call of build_action.
AfterNormalize(norm, cands, url, step_index) ==
    CASE norm.kind = "raise" -> Raises(norm.exc)
      [] norm.kind = "none" -> Break
      [] OTHER -> AfterBuild(build_action(norm.d, cands, url, step_index),
                             validate_and_fix(norm.d, cands))

\* "raw_decision = parse_llm_json(content)"
AfterParse(parsed, cands, url, step_index) ==
    IF parsed.kind = "raise" THEN Retry
    ELSE AfterNormalize(normalize_decision(parsed.raw), cands, url, step_index)

\* One iteration of "for attempt in range(max_retries + 1)" for a gateway
\* reply: chat_completions returns resp.json(), which raises
\* JSONDecodeError (a ValueError) for a body that is not JSON; then
\* resp["choices"][0]["message"]["content"] and content.strip().
Attempt(reply, cands, url, step_index) ==
    CASE reply.kind = "not_json" -> Retry
      [] reply.kind = "no_choices" -> Raises("KeyError")
      [] reply.kind = "empty_choices" -> Raises("IndexError")
      [] reply.kind = "null_content" -> Raises("AttributeError")
      [] OTHER -> AfterParse(parse_llm_json(reply.toks, reply.payload),
                             cands, url, step_index)

\* Mutant of Exhausted: the fallback after the loop scrolls up.
Exhausted_Up == Returns(<<ScrollAction(FALSE, TRUE)>>, FixedNone, FALSE)

\* Step 16: "return ActResponse(actions=[ScrollAction(down=True)])"
Exhausted == Returns(<<ScrollAction(TRUE, FALSE)>>, FixedNone, FALSE)

\* What the iteration comes to: a caught ValueError on the last attempt,
\* and a break, leave the loop for step 16.
Settled(out, att) ==
    IF out.kind = "break" \/ (out.kind = "retry" /\ att >= max_retries) THEN Exhausted
    ELSE out

(***************************************************************************)
(* SpecDecide: /act requests handled one at a time by decide.  A request   *)
(* carries, for its snapshot_html, the candidate list extract_candidates   *)
(* returns for it (page) and, for its prompt, the patterns that match it.  *)
(***************************************************************************)
\* <button>Log out</button>
c_logout(id) ==
    Candidate(id, "button", <<"L", "o", "g", " ", "o", "u", "t">>,
              Selector("tagContainsSelector", "", <<"L", "o", "g", " ", "o", "u", "t">>),
              "", << >>, << >>, << >>)
\* <button>Sign up</button>
c_signup(id) ==
    Candidate(id, "button", <<"S", "i", "g", "n", " ", "u", "p">>,
              Selector("tagContainsSelector", "", <<"S", "i", "g", "n", " ", "u", "p">>),
              "", << >>, << >>, << >>)
\* <button>Send</button>
c_send(id) ==
    Candidate(id, "button", <<"S", "e", "n", "d">>,
              Selector("tagContainsSelector", "", <<"S", "e", "n", "d">>),
              "", << >>, << >>, << >>)
\* <button>Search</button>
c_go(id) ==
    Candidate(id, "button", <<"S", "e", "a", "r", "c", "h">>,
              Selector("tagContainsSelector", "", <<"S", "e", "a", "r", "c", "h">>),
              "", << >>, << >>, << >>)
\* <form id="f"><button>OK</button>
c_ok(id) ==
    Candidate(id, "button", <<"O", "K">>,
              Selector("tagContainsSelector", "", <<"O", "K">>),
              "", << >>, << >>, <<"f">>)
\* <input id="e" type="email" aria-label="Email">
c_email(id) ==
    Candidate(id, "input", <<"E", "m", "a", "i", "l">>,
              Selector("attributeValueSelector", "id", <<"e">>),
              "email", << >>, << >>, << >>)
\* <input id="p2" type="password" aria-label="Confirm password">
c_pass2(id) ==
    Candidate(id, "input", <<"C", "o", "n", "f", "i", "r", "m", " ", "p", "a", "s", "s", "w", "o", "r", "d">>,
              Selector("attributeValueSelector", "id", <<"p", "2">>),
              "password", << >>, << >>, << >>)
\* <form id="f"><input id="pf" type="password" aria-label="Password">
c_passf(id) ==
    Candidate(id, "input", <<"P", "a", "s", "s", "w", "o", "r", "d">>,
              Selector("attributeValueSelector", "id", <<"p", "f">>),
              "password", << >>, << >>, <<"f">>)
\* <input type="search" name="q" placeholder="Search">
c_q(id) ==
    Candidate(id, "input", <<"S", "e", "a", "r", "c", "h">>,
              Selector("attributeValueSelector", "name", <<"q">>),
              "search", <<"S", "e", "a", "r", "c", "h">>, << >>, << >>)
\* <textarea name="msg"></textarea>
c_message(id) ==
    Candidate(id, "textarea", << >>,
              Selector("attributeValueSelector", "name", <<"m", "s", "g">>),
              "", << >>, << >>, << >>)

MaxRequests == 2    \* requests handled in one behaviour

P_empty == << >>
P_fall == <<c_cancel(0), c_loginlink(1), c_submit_in(2)>>
P_login == <<c_login(0), c_user(1), c_pass(2)>>
P_form == <<c_ok(0), c_user(1), c_passf(2)>>
P_logout == <<c_logout(0), c_home(1)>>
P_reg == <<c_signup(0), c_user(1), c_email(2), c_pass(3), c_pass2(4)>>
P_contact == <<c_send(0), c_name(1), c_email(2), c_message(3)>>
P_search == <<c_go(0), c_q(1)>>

\* History entries; decide reads their action, candidate_id and url.
h_click == Decision(PyStr(s_click), PyInt(1), PyMissing, PyMissing)
h_type == Decision(PyStr(s_type), PyInt(1), PyMissing, PyMissing)
h_nav == Decision(PyStr(s_navigate), PyMissing, PyMissing, PyStr(u_x))

Req(task_id, prompt, page, step_index, history) ==
    [task_id |-> task_id, prompt |-> prompt, page |-> page, url |-> u_here,
     step_index |-> step_index, history |-> history]

\* Prompts: no pattern matches; "log in"; "log in, then log out";
\* "register"; "contact us"; "search for x".
Requests ==
    {Req("t1", {}, P_fall, s, << >>) : s \in StepIndexes}
      \cup {Req(t, {}, pg, 1, h) : t \in TaskIds, pg \in {P_empty, P_login},
                                    h \in {<<h_click>>, <<h_type, h_nav>>}}
      \cup {Req("t1", {2}, pg, s, << >>) : pg \in {P_login, P_form}, s \in StepIndexes}
      \cup {Req("t1", {2}, P_fall, 0, << >>)}
      \cup {Req("t1", {1, 2}, pg, 0, h) :
              pg \in {P_logout, P_login},
              h \in {<< >>, <<h_type>>, <<h_type, h_type, h_click>>}}
      \cup {Req("t1", {3}, P_reg, s, << >>) : s \in StepIndexes}
      \cup {Req("t1", {15}, P_contact, s, << >>) : s \in StepIndexes}
      \cup {Req("t1", {5}, P_search, s, << >>) : s \in StepIndexes}

\* The JSON objects a reply's content may spell.
Payloads ==
    {Decision(PyStr(a), PyMissing, PyMissing, PyMissing) :
        a \in {s_done, s_scroll_down, s_scroll_up, s_wait}}
      \cup {Decision(PyStr(s_click), c, PyMissing, PyMissing) :
              c \in {PyInt(1), PyInt(MaxCid), PyStr(<<"1">>), PyStr(<<"a", "b", "c">>),
                     PyNone, PyInf}}
      \cup {Decision(PyStr(s_type), PyInt(2), x, PyMissing) :
              x \in {PyStr(<<"h", "i">>), PyMissing, PyInt(5)}}
      \cup {Decision(PyStr(s_select), PyFloat(1), PyStr(<<"h", "i">>), PyMissing)}
      \cup {Decision(PyStr(s_navigate), PyMissing, PyMissing, u) :
              u \in {PyStr(u_x), PyStr(u_other), PyStr(u_bracket), PyNone}}
      \cup {Decision(PyMissing, PyInt(0), PyMissing, PyMissing),
            Decision(PyNone, PyInt(0), PyMissing, PyMissing),
            NoDecision}

\* The forms the content takes around the object.
Shapes ==
    { <<"obj">>, <<"ws", "obj", "ws">>,
      <<"fence", "json", "ws", "obj", "ws", "fence">>, <<"fence", "ws", "obj", "fence">>,
      <<"fence", "json", "obj">>, <<"fence", "prose", "ws", "obj", "ws", "fence">>,
      <<"prose", "ws", "obj", "ws", "prose">>, <<"[", "obj", "]">>,
      << >>, <<"ws">>, <<"prose">>, <<"arr">>, <<"fence", "fence">>,
      <<"obj", "ws", "obj">>, <<"obj", "}">>, <<"}", "prose", "{">> }

Text(toks, payload) == [kind |-> "text", toks |-> toks, payload |-> payload]
Body(kind) == [kind |-> kind, toks |-> << >>, payload |-> NoDecision]

\* The gateway replies: a body that is not JSON, a body without choices,
\* with an empty choices list, with null content, and with text content.
Replies ==
    {Body(k) : k \in {"not_json", "no_choices", "empty_choices", "null_content"}}
      \cup {Text(<<"obj">>, p) : p \in Payloads}
      \cup {Text(s, Decision(PyStr(s_scroll_up), PyMissing, PyMissing, PyMissing)) :
              s \in Shapes}

Response(actions) == [kind |-> "response", actions |-> actions, exc |-> "-"]
Raise(e) == [kind |-> "raise", actions |-> << >>, exc |-> e]

InitDecide ==
    /\ DecideQuiet
    /\ ExtQuiet
    /\ _TASK_STATE = EmptyState
    /\ calls = << >>
    /\ hint = "-"
    /\ b_decision = NoDecision
    /\ b_candidates = << >>
    /\ b_url = << >>
    /\ b_step = 0
    /\ b_fixed = FixedNone
    /\ b_result = ReturnedNone
    /\ b_pc = "-"

\* Mutant of StepsTaken: the Page IR is built before the shortcuts are tried.
StepsTaken_IRFirst(req) ==
    <<"prune_html", "extract_candidates", "build_page_ir">>
    \o (IF Shortcut(req).kind = "none" /\ req.history # << >> THEN <<"check_loop">> ELSE << >>)

\* The calls decide makes up to the first LLM call (loop.py:113-254):
\* prune_html and extract_candidates, then the shortcut of the task type,
\* and only when no shortcut answers build_page_ir and, for a request with
\* history, check_loop.
StepsTaken(req) ==
    <<"prune_html", "extract_candidates">>
    \o (IF Shortcut(req).kind = "none"
        THEN <<"build_page_ir">>
             \o (IF req.history # << >> THEN <<"check_loop">> ELSE << >>)
        ELSE << >>)

\* decide(request) up to the first LLM call: steps 1-3 (prune, extract,
\* classify, shortcut) and, when no shortcut answers, steps 4-9 with the
\* loop check of step 7.
Receive(req) ==
    /\ pc = "idle"
    /\ served < MaxRequests
    /\ request' = req
    /\ candidates' = req.page
    /\ attempt' = 0
    /\ llm_calls' = 0
    /\ replies' = << >>
    /\ decision' = Shortcut(req).fixed
    /\ d_steps' = StepsTaken(req)
    /\ IF Shortcut(req).kind = "return"
       THEN /\ response' = Response(Shortcut(req).actions)
            /\ pc' = "returned"
            /\ UNCHANGED <<_TASK_STATE, hint>>
       ELSE IF Shortcut(req).kind = "raise"
       THEN /\ response' = Raise(Shortcut(req).exc)
            /\ pc' = "raised"
            /\ UNCHANGED <<_TASK_STATE, hint>>
       ELSE /\ response' = NoResponse
            /\ pc' = "llm"
            /\ IF req.history # << >>
               THEN /\ _TASK_STATE' =
                          check_loop(_TASK_STATE, req.task_id, PyStr(req.url),
                                     get_action_signature(req.history[Len(req.history)])).state
                    /\ hint' =
                          check_loop(_TASK_STATE, req.task_id, PyStr(req.url),
                                     get_action_signature(req.history[Len(req.history)])).hint
               ELSE /\ hint' = "none"
                    /\ UNCHANGED _TASK_STATE
    /\ UNCHANGED <<served, calls, buildVars, extVars>>

\* One iteration of the retry loop: the LLM is called, the gateway replies,
\* and decide retries, returns or raises.
LLMCall(reply) ==
    /\ pc = "llm"
    /\ llm_calls' = llm_calls + 1
    /\ d_steps' = Append(d_steps, "chat_completions")
    /\ replies' = Append(replies, reply)
    /\ LET out == Settled(Attempt(reply, candidates, request.url, request.step_index), attempt)
       IN  CASE out.kind = "retry" ->
                  /\ attempt' = attempt + 1
                  /\ UNCHANGED <<pc, decision, response, _TASK_STATE>>
             [] out.kind = "raise" ->
                  /\ response' = Raise(out.exc)
                  /\ pc' = "raised"
                  /\ UNCHANGED <<attempt, decision, _TASK_STATE>>
             [] OTHER ->
                  /\ response' = Response(out.actions)
                  /\ decision' = out.fixed
                  /\ pc' = "returned"
                  /\ _TASK_STATE' = IF out.done
                                    THEN clear_task_state(_TASK_STATE, request.task_id)
                                    ELSE _TASK_STATE
                  /\ UNCHANGED attempt
    /\ UNCHANGED <<request, candidates, served, calls, hint, buildVars, extVars>>

\* main.py: act hands decide's response to the caller, the catch-all
\* handler answers an exception; the service is ready for the next request.
ActReturns ==
    /\ pc \in {"returned", "raised"}
    /\ request' = NoRequest
    /\ candidates' = << >>
    /\ pc' = "idle"
    /\ attempt' = 0
    /\ llm_calls' = 0
    /\ replies' = << >>
    /\ decision' = FixedNone
    /\ response' = NoResponse
    /\ served' = served + 1
    /\ d_steps' = << >>
    /\ hint' = "-"
    /\ UNCHANGED <<_TASK_STATE, calls, buildVars, extVars>>

NextDecide ==
    \/ \E req \in Requests : Receive(req)
    \/ \E reply \in Replies : LLMCall(reply)
    \/ ActReturns

SpecDecide == InitDecide /\ [][NextDecide]_vars

(***************************************************************************)
(* Properties of decide, stated on SpecDecide.                             *)
(***************************************************************************)
\* C2: every response decide returns carries zero actions or exactly one,
\* and zero only when the validated decision was done, on the shortcut,
\* fallback and retry-exhaustion paths alike.
C2_ZeroOrOneAction ==
    pc = "returned" =>
        /\ Len(response.actions) <= 1
        /\ response.actions = << >> =>
              (decision.kind = "ok" /\ Is(decision.d.action, s_done))

\* The LLM answered done and decide returned an empty action list.
C2_Witness ==
    /\ pc = "returned"
    /\ llm_calls = 1
    /\ response.actions = << >>
    /\ decision.kind = "ok"
    /\ Is(decision.d.action, s_done)

\* C3: for every gateway reply that is delivered, whatever its body
\* (choices present or absent, content a JSON object, other text, empty or
\* null), decide returns an ActResponse and no exception escapes it.
C3_NoExceptionEscapes ==
    llm_calls >= 1 => (pc # "raised" /\ response.kind # "raise")

\* C4: within one request the LLM is called at most twice, and a second
\* call is made only when no JSON object could be obtained from the first
\* reply; a reply that parses never causes a second call.
C4_RetryOnlyUnparseable ==
    /\ llm_calls <= 2
    /\ Len(replies) >= 2 =>
          \/ replies[1].kind = "not_json"
          \/ /\ replies[1].kind = "text"
             /\ parse_llm_json(replies[1].toks, replies[1].payload).kind = "raise"

\* C5: when neither the first reply nor the retried one yields a JSON
\* object, decide returns exactly one ScrollAction with down set and does
\* not raise.
C5_ExhaustedScrollsDown ==
    (/\ Len(replies) = 2
     /\ \A i \in {1, 2} :
           \/ replies[i].kind = "not_json"
           \/ /\ replies[i].kind = "text"
              /\ parse_llm_json(replies[i].toks, replies[i].payload).kind = "raise") =>
        /\ pc = "returned"
        /\ Len(response.actions) = 1
        /\ response.actions[1].type = "ScrollAction"
        /\ response.actions[1].down
        /\ ~response.actions[1].up

\* Prose without an object, then two objects side by side: both replies
\* unparseable, and decide returned a scroll down.
C5_Witness ==
    /\ pc = "returned"
    /\ llm_calls = 2
    /\ Len(replies) = 2
    /\ replies[1].toks = <<"prose">>
    /\ replies[2].toks = <<"obj", "ws", "obj">>
    /\ response.actions = <<ScrollAction(TRUE, FALSE)>>

\* C6: when a reply parses as a JSON object that is schema-invalid (no
\* action field, or a candidate_id that int() rejects), decide makes no
\* further LLM call and returns the step-index-aware fallback: a click on
\* the keyword candidate or the first candidate for step_index < 5 with
\* candidates, else a scroll down.
C6_SchemaInvalidFallback ==
    \A i \in 1..Len(replies) :
        (/\ replies[i].kind = "text"
         /\ parse_llm_json(replies[i].toks, replies[i].payload).kind = "dict"
         /\ LET raw == parse_llm_json(replies[i].toks, replies[i].payload).raw
            IN  \/ raw.action.t = "missing"
                \/ /\ raw.candidate_id.t \notin {"missing", "none"}
                   /\ ~PyIntOf(raw.candidate_id).ok) =>
            /\ i = Len(replies)
            /\ pc = "returned"
            /\ response.actions = <<Fallback(candidates, request.step_index).action>>

\* C12: after a decide request for task t ends with the done outcome, and
\* equally after one ends by raising an error, _TASK_STATE holds no entry
\* for t.
C12_ClearedAfterDoneOrError ==
    (\/ pc = "raised"
     \/ /\ pc = "returned"
        /\ llm_calls >= 1
        /\ response.actions = << >>) =>
        request.task_id \notin DOMAIN _TASK_STATE

(***************************************************************************)
(* SpecAct: several /act requests of main.py in flight at once.  act is    *)
(* an "async def" endpoint that calls decide(request) with no await, and   *)
(* decide and everything it calls are plain functions: the event loop runs *)
(* one handler from its first statement to its return before it runs the   *)
(* next.  The handler's check_loop call is taken one statement group at a  *)
(* time, so that an interleaving, were one possible, would show.           *)
(***************************************************************************)
MaxInflight == 3    \* requests accepted in one behaviour

RequestIds == 1..MaxInflight

\* (task_id, signature of the last history entry) of the requests.
ActInputs == {<<"t1", PyStr(sig_a)>>, <<"t1", PyStr(sig_ab)>>, <<"t2", PyStr(sig_a)>>}

\* A request the server has not received yet.
NotArrived ==
    [pc |-> "idle", task |-> "-", sig |-> PyNone, url |-> PyNone,
     state |-> FreshState, orphan |-> FALSE]

\* Mutant of Runnable: handlers run on threads and interleave freely.
Runnable_Threaded(infl, r) == TRUE

\* The event loop runs handler r's next statement only when no other
\* handler has begun and not yet returned: act never awaits.
Runnable(infl, r) ==
    \A q \in DOMAIN infl \ {r} : infl[q].pc \in {"idle", "waiting", "done"}

\* Handlers that have been accepted and have not returned.
InFlight(infl) == {q \in DOMAIN infl : infl[q].pc \notin {"idle", "done"}}

\* _TASK_STATE after the calls of a list are applied one after another.
RECURSIVE Replay(_)
Replay(cs) ==
    IF cs = << >> THEN EmptyState
    ELSE LET before == Replay(SubSeq(cs, 1, Len(cs) - 1))
             c == cs[Len(cs)]
         IN  IF c.op = "check"
             THEN check_loop(before, c.task, c.url, c.sig).state
             ELSE clear_task_state(before, c.task)

InitAct ==
    /\ inflight = [r \in RequestIds |-> NotArrived]
    /\ _TASK_STATE = EmptyState
    /\ calls = << >>
    /\ hint = "-"
    /\ b_decision = NoDecision
    /\ b_candidates = << >>
    /\ b_url = << >>
    /\ b_step = 0
    /\ b_fixed = FixedNone
    /\ b_result = ReturnedNone
    /\ b_pc = "-"
    /\ DecideQuiet
    /\ ExtractQuiet /\ SelectorQuiet /\ PageIRQuiet /\ FnQuiet

ActUnchanged == UNCHANGED <<buildVars, decideVars, x_soup, x_candidates, x_nodes, x_pc,
                            sel_in, sel_out, ir_in, ir_out, fnVars>>

\* A request whose handler has returned.
Answered == [NotArrived EXCEPT !.pc = "done"]

\* The server accepts a request with a non-empty history; its handler is
\* scheduled on the event loop.  Requests are numbered as they arrive.
Arrive(r, task_id, url, action_sig) ==
    /\ inflight[r].pc = "idle"
    /\ \A q \in 1..(r - 1) : inflight[q].pc # "idle"
    /\ inflight' = [inflight EXCEPT ![r] = [NotArrived EXCEPT !.pc = "waiting",
                        !.task = task_id, !.sig = action_sig, !.url = url]]
    /\ UNCHANGED <<_TASK_STATE, calls, hint>>
    /\ ActUnchanged

\* The event loop starts the handler: act -> decide up to the call of
\* check_loop (loop.py:254), and in check_loop
\* "if task_id not in _TASK_STATE: ..." (state.py:40-45).
Ensure(r) ==
    /\ inflight[r].pc = "waiting"
    /\ Runnable(inflight, r)
    /\ _TASK_STATE' = [x \in DOMAIN _TASK_STATE \cup {inflight[r].task} |->
                          StateOf(_TASK_STATE, x)]
    /\ inflight' = [inflight EXCEPT ![r].pc = "read"]
    /\ UNCHANGED <<calls, hint>>
    /\ ActUnchanged

\* check_loop, state = _TASK_STATE[task_id] and the values it reads from
\* it for the comparison and for "+= 1" (state.py:47-56).
ReadState(r) ==
    /\ inflight[r].pc = "read"
    /\ Runnable(inflight, r)
    /\ inflight' = [inflight EXCEPT ![r].pc = "write",
                                    ![r].state = StateOf(_TASK_STATE, inflight[r].task),
                                    ![r].orphan = inflight[r].task \notin DOMAIN _TASK_STATE]
    /\ UNCHANGED <<_TASK_STATE, calls, hint>>
    /\ ActUnchanged

\* check_loop, the stores into state and the return (state.py:56-64).  The
\* stores go to the dict read before, which is no longer in _TASK_STATE
\* when the entry was popped meanwhile.
WriteState(r) ==
    /\ inflight[r].pc = "write"
    /\ Runnable(inflight, r)
    /\ LET new == Updated(inflight[r].state, inflight[r].url, inflight[r].sig)
       IN  /\ _TASK_STATE' = IF inflight[r].orphan THEN _TASK_STATE
                             ELSE [_TASK_STATE EXCEPT ![inflight[r].task] = new]
           /\ hint' = IF new.repeat_count >= 2 THEN "hint" ELSE "none"
           /\ calls' = Append(calls,
                  [op |-> "check", task |-> inflight[r].task, sig |-> inflight[r].sig,
                   url |-> inflight[r].url, hint |-> hint',
                   repeat_count |-> new.repeat_count,
                   inflight |-> Cardinality(InFlight(inflight))])
    /\ inflight' = [inflight EXCEPT ![r].pc = "llm"]
    /\ ActUnchanged

\* The rest of decide (loop.py:257-364): the LLM is called and decide
\* returns; on the done outcome clear_task_state pops the task's entry.
Return(r, done) ==
    /\ inflight[r].pc = "llm"
    /\ Runnable(inflight, r)
    /\ IF done
       THEN /\ _TASK_STATE' = clear_task_state(_TASK_STATE, inflight[r].task)
            /\ calls' = Append(calls,
                   [op |-> "clear", task |-> inflight[r].task, sig |-> PyNone,
                    url |-> PyNone, hint |-> "-", repeat_count |-> 0,
                    inflight |-> Cardinality(InFlight(inflight))])
            /\ inflight' = [q \in DOMAIN inflight |->
                              IF q = r THEN Answered
                              ELSE IF inflight[q].task = inflight[r].task
                                      /\ inflight[q].pc = "write"
                              THEN [inflight[q] EXCEPT !.orphan = TRUE]
                              ELSE inflight[q]]
       ELSE /\ inflight' = [inflight EXCEPT ![r] = Answered]
            /\ UNCHANGED <<_TASK_STATE, calls>>
    /\ UNCHANGED hint
    /\ ActUnchanged

NextAct ==
    \/ \E r \in RequestIds, i \in ActInputs : Arrive(r, i[1], PyStr(url_c), i[2])
    \/ \E r \in RequestIds : Ensure(r)
    \/ \E r \in RequestIds : ReadState(r)
    \/ \E r \in RequestIds : WriteState(r)
    \/ \E r \in RequestIds, done \in BOOLEAN : Return(r, done)

SpecAct == InitAct /\ [][NextAct]_vars

\* C13: with several requests of one task in flight at once, every
\* check_loop call's read and write-back are atomic with respect to the
\* other check_loop and clear_task_state calls: whenever no call is under
\* way, _TASK_STATE is what the completed calls give applied one after
\* another, so no update is lost, and k identical checks from a fresh state
\* leave repeat_count equal to k.
C13_ChecksAtomic ==
    (\A r \in RequestIds : inflight[r].pc \in {"idle", "waiting", "llm", "done"}) =>
        /\ _TASK_STATE = Replay(calls)
        /\ (/\ calls # << >>
            /\ \A i \in 1..Len(calls) :
                  /\ calls[i].op = "check"
                  /\ calls[i].task = calls[1].task
                  /\ calls[i].sig = calls[1].sig) =>
               _TASK_STATE[calls[1].task].repeat_count = Len(calls)

\* Three identical checks of t1, all three requests in flight when the
\* first check completed: repeat_count is 3.
C13_Witness ==
    /\ Len(calls) = MaxInflight
    /\ \A i \in 1..Len(calls) :
          /\ calls[i].op = "check"
          /\ calls[i].task = "t1"
          /\ calls[i].sig = PyStr(sig_a)
    /\ calls[1].inflight = MaxInflight
    /\ "t1" \in DOMAIN _TASK_STATE
    /\ _TASK_STATE["t1"].repeat_count = MaxInflight


(***************************************************************************)
(* parsing/selectors.py, parsing/filtering.py, parsing/labels.py.  An      *)
(* element's attrs (the str:str map of _attrs_to_str_map) is a function    *)
(* from the attribute names present to their values; the value of "type"   *)
(* is a plain string, every other value a sequence of characters.          *)
(***************************************************************************)
s_javascript == <<"j", "a", "v", "a", "s", "c", "r", "i", "p", "t", ":">>
s_display_none == <<"d", "i", "s", "p", "l", "a", "y", ":", "n", "o", "n", "e">>
s_display_none_sp == <<"d", "i", "s", "p", "l", "a", "y", ":", " ", "n", "o", "n", "e">>
s_visibility_hidden == <<"v", "i", "s", "i", "b", "i", "l", "i", "t", "y", ":", "h", "i", "d", "d", "e", "n">>
s_visibility_hidden_sp == <<"v", "i", "s", "i", "b", "i", "l", "i", "t", "y", ":", " ", "h", "i", "d", "d", "e", "n">>
s_true == <<"t", "r", "u", "e">>
s_hidden == <<"h", "i", "d", "d", "e", "n">>
s_sr_only == <<"s", "r", "-", "o", "n", "l", "y">>
s_invisible == <<"i", "n", "v", "i", "s", "i", "b", "l", "e">>

\* attrs.get(key, ""), and attrs.get("type", "") for the type attribute
AttrGet(attrs, key) == IF key \in DOMAIN attrs THEN attrs[key] ELSE << >>
TypeOf(attrs) == IF "type" \in DOMAIN attrs THEN attrs["type"] ELSE ""

\* .lower() of a type attribute value
TypeLower(t) ==
    CASE t = "HIDDEN" -> "hidden"
      [] t = "Hidden" -> "hidden"
      [] OTHER -> t

\* The tag name as text, for the value of the custom selector.
TagChars(tag) ==
    CASE tag = "a" -> <<"a">>
      [] tag = "button" -> <<"b", "u", "t", "t", "o", "n">>
      [] tag = "input" -> <<"i", "n", "p", "u", "t">>
      [] tag = "textarea" -> <<"t", "e", "x", "t", "a", "r", "e", "a">>
      [] tag = "select" -> <<"s", "e", "l", "e", "c", "t">>
      [] tag = "div" -> <<"d", "i", "v">>
      [] tag = "span" -> <<"s", "p", "a", "n">>
      [] OTHER -> <<"p">>

\* models/selectors.py: sel_attr(...).model_dump(), sel_text(...).model_dump()
sel_attr(attribute, value) == Selector("attributeValueSelector", attribute, value)
sel_text(value) == Selector("tagContainsSelector", "", value)

\* The attribute rules of build_selector that follow the href rule.
PlainAttributes == <<"aria-label", "name", "placeholder", "title">>

\* The first of the attributes keys[i..] that is present and non-empty, 0
\* when there is none.
FirstPresent(attrs, keys) ==
    IF \E i \in 1..Len(keys) : AttrGet(attrs, keys[i]) # << >>
    THEN SetMin({i \in 1..Len(keys) : AttrGet(attrs, keys[i]) # << >>})
    ELSE 0

\* Lines 25-28: the href of an anchor is usable.
HrefApplies(tag, attrs) ==
    /\ tag = "a"
    /\ AttrGet(attrs, "href") # << >>
    /\ ~StartsWith(Lower(AttrGet(attrs, "href")), s_javascript)

\* Mutant of build_selector: data-testid is tried before id.
build_selector_TestIdFirst(tag, attrs, text) ==
    IF AttrGet(attrs, "data-testid") # << >> THEN sel_attr("data-testid", attrs["data-testid"])
    ELSE IF AttrGet(attrs, "id") # << >> THEN sel_attr("id", attrs["id"])
    ELSE IF HrefApplies(tag, attrs) THEN sel_attr("href", attrs["href"])
    ELSE IF FirstPresent(attrs, PlainAttributes) # 0
    THEN sel_attr(PlainAttributes[FirstPresent(attrs, PlainAttributes)],
                  attrs[PlainAttributes[FirstPresent(attrs, PlainAttributes)]])
    ELSE IF text # << >> /\ tag \in {"button", "a"} THEN sel_text(text)
    ELSE sel_attr("custom", TagChars(tag))

\* build_selector(tag, attrs, text)
build_selector(tag, attrs, text) ==
    IF AttrGet(attrs, "id") # << >> THEN sel_attr("id", attrs["id"])
    ELSE IF AttrGet(attrs, "data-testid") # << >> THEN sel_attr("data-testid", attrs["data-testid"])
    ELSE IF HrefApplies(tag, attrs) THEN sel_attr("href", attrs["href"])
    ELSE IF FirstPresent(attrs, PlainAttributes) # 0
    THEN sel_attr(PlainAttributes[FirstPresent(attrs, PlainAttributes)],
                  attrs[PlainAttributes[FirstPresent(attrs, PlainAttributes)]])
    ELSE IF text # << >> /\ tag \in {"button", "a"} THEN sel_text(text)
    ELSE sel_attr("custom", TagChars(tag))

\* classes.split(): the class value joins its tokens with single spaces.
Tokens(s) == {SplitOn(s, " ")[i] : i \in 1..Len(SplitOn(s, " "))} \ {<< >>}

\* is_hidden(attrs)
is_hidden(attrs) ==
    \/ "hidden" \in DOMAIN attrs
    \/ Lower(AttrGet(attrs, "aria-hidden")) = s_true
    \/ Contains(Lower(AttrGet(attrs, "style")), s_display_none)
    \/ Contains(Lower(AttrGet(attrs, "style")), s_display_none_sp)
    \/ Contains(Lower(AttrGet(attrs, "style")), s_visibility_hidden)
    \/ Contains(Lower(AttrGet(attrs, "style")), s_visibility_hidden_sp)
    \/ Tokens(Lower(AttrGet(attrs, "class"))) \cap {s_hidden, s_sr_only, s_invisible} # {}

\* is_disabled(attrs)
is_disabled(attrs) ==
    \/ "disabled" \in DOMAIN attrs
    \/ Lower(AttrGet(attrs, "aria-disabled")) = s_true

\* re.sub(r"\s+", " ", s): runs of spaces become one space.
\* s with each space dropped that another space follows; next is the
\* character after s.  The string is halved to keep the recursion shallow.
RECURSIVE SqueezeBefore(_, _)
SqueezeBefore(s, next) ==
    IF Len(s) = 0 THEN << >>
    ELSE IF Len(s) = 1 THEN (IF s[1] = " " /\ next = " " THEN << >> ELSE s)
    ELSE SqueezeBefore(SubSeq(s, 1, Len(s) \div 2), s[Len(s) \div 2 + 1])
         \o SqueezeBefore(SubSeq(s, Len(s) \div 2 + 1, Len(s)), next)

\* re.sub(r"\s+", " ", s)
Squeeze(s) == SqueezeBefore(s, "")

\* _norm_ws(s)
_norm_ws(s) == Strip(Squeeze(s))

\* t[:120]
Clip(s) == SubSeq(s, 1, IF Len(s) < 120 THEN Len(s) ELSE 120)

\* The attribute-based labels of infer_label, in order.
LabelAttributes == <<"aria-label", "placeholder", "title">>

\* A lookup in the tree (soup.find, el.find_parent): the element found, as
\* its get_text(" ", strip=True), or nothing.
NotFound == [found |-> FALSE, text |-> << >>]
Found(text) == [found |-> TRUE, text |-> text]

\* "if lab: t = _norm_ws(lab.get_text(...)); if t: return t[:120]"
Gives(lab) == lab.found /\ _norm_ws(lab.text) # << >>

\* The test of lines 30-32: a button or link with inner text.
ByText(el) ==
    /\ (el.tag \in {"a", "button"} \/ AttrGet(el.attrs, "role") \in {<<"b", "u", "t", "t", "o", "n">>, <<"l", "i", "n", "k">>})
    /\ _norm_ws(el.text) # << >>

\* attrs["aria-labelledby"].split()[0] raises IndexError when the attribute
\* holds whitespace only; the line is reached when no earlier source returned.
LabelRaises(el) ==
    /\ ~ByText(el)
    /\ FirstPresent(el.attrs, LabelAttributes) = 0
    /\ AttrGet(el.attrs, "aria-labelledby") # << >>
    /\ Tokens(AttrGet(el.attrs, "aria-labelledby")) = {}

\* infer_label(soup, el, attrs), where it returns.  el.text is
\* el.get_text(" ", strip=True); el.labelledby is what soup.find(id=lid)
\* finds for the first id of aria-labelledby, el.label_for what
\* soup.find("label", attrs={"for": id}) finds, el.parent_label what
\* el.find_parent("label") finds.
infer_label(el) ==
    IF ByText(el) THEN Clip(_norm_ws(el.text))
    ELSE IF FirstPresent(el.attrs, LabelAttributes) # 0
    THEN Clip(_norm_ws(el.attrs[LabelAttributes[FirstPresent(el.attrs, LabelAttributes)]]))
    ELSE IF AttrGet(el.attrs, "aria-labelledby") # << >> /\ Gives(el.labelledby)
    THEN Clip(_norm_ws(el.labelledby.text))
    ELSE IF AttrGet(el.attrs, "id") # << >> /\ Gives(el.label_for)
    THEN Clip(_norm_ws(el.label_for.text))
    ELSE IF Gives(el.parent_label) THEN Clip(_norm_ws(el.parent_label.text))
    ELSE << >>


(***************************************************************************)
(* parsing/candidates.py: extract_candidates over a pruned tree.  The tree *)
(* is the sequence of its elements in document order; an element carries   *)
(* its tag, its attrs, its text, the label text found outside it, the      *)
(* enclosing form's id or name and, for a select, its option texts.        *)
(***************************************************************************)
INTERACTIVE_SELECTORS ==
    <<"button", "a[href]", "input", "textarea", "select", "[role='button']", "[role='link']">>

\* el is in soup.select(css_sel)
Matches(css_sel, el) ==
    CASE css_sel = "a[href]" -> el.tag = "a" /\ "href" \in DOMAIN el.attrs
      [] css_sel = "[role='button']" -> AttrGet(el.attrs, "role") = <<"b", "u", "t", "t", "o", "n">>
      [] css_sel = "[role='link']" -> AttrGet(el.attrs, "role") = <<"l", "i", "n", "k">>
      [] OTHER -> el.tag = css_sel

\* The two loops of lines 138-139 from query q, element i on.
RECURSIVE VisitsFrom(_, _, _)
VisitsFrom(soup, q, i) ==
    IF q > Len(INTERACTIVE_SELECTORS) THEN << >>
    ELSE IF i > Len(soup) THEN VisitsFrom(soup, q + 1, 1)
    ELSE (IF Matches(INTERACTIVE_SELECTORS[q], soup[i])
          THEN <<[query |-> q, node |-> i]>> ELSE << >>)
         \o VisitsFrom(soup, q, i + 1)

\* Mutant of Visits: the elements are walked in document order, each one
\* under every query that matches it.
RECURSIVE DocumentOrderFrom(_, _, _)
DocumentOrderFrom(soup, q, i) ==
    IF i > Len(soup) THEN << >>
    ELSE IF q > Len(INTERACTIVE_SELECTORS) THEN DocumentOrderFrom(soup, 1, i + 1)
    ELSE (IF Matches(INTERACTIVE_SELECTORS[q], soup[i])
          THEN <<[query |-> q, node |-> i]>> ELSE << >>)
         \o DocumentOrderFrom(soup, q + 1, i)

Visits_DocumentOrder(soup) == DocumentOrderFrom(soup, 1, 1)

\* "for css_sel in INTERACTIVE_SELECTORS: for el in soup.select(css_sel)":
\* the (query, element) pairs in the order the loops meet them.
Visits(soup) == VisitsFrom(soup, 1, 1)

\* Mutant of Skipped: disabled elements are kept.
Skipped_HiddenOnly(tag, attrs) ==
    \/ tag = "input" /\ TypeLower(TypeOf(attrs)) = "hidden"
    \/ is_hidden(attrs)

\* Lines 143-149: the element is passed over.
Skipped(tag, attrs) ==
    \/ tag = "input" /\ TypeLower(TypeOf(attrs)) = "hidden"
    \/ is_hidden(attrs)
    \/ is_disabled(attrs)

\* Lines 156-160: sig
Signature(selector) == <<selector.type, selector.attribute, selector.value>>

\* Mutant of Duplicate: nothing is a duplicate.
Duplicate_Never(sig, seen_sigs) == FALSE

\* Line 161: sig in seen_sigs
Duplicate(sig, seen_sigs) == sig \in seen_sigs

\* Lines 170-184: the candidate built from el
NewCandidate(id, el, label, selector) ==
    Candidate(id, el.tag, label, selector,
              IF el.tag = "input" THEN TypeOf(el.attrs) ELSE "",
              AttrGet(el.attrs, "placeholder"),
              IF el.tag = "select" THEN el.options ELSE << >>,
              el.form)

\* The body of the inner loop for one element (lines 140-185).
Visit(acc, el, node) ==
    IF Skipped(el.tag, el.attrs) THEN acc
    ELSE IF Duplicate(Signature(build_selector(el.tag, el.attrs, infer_label(el))),
                      acc.seen_sigs)
    THEN acc
    ELSE [candidates |->
             Append(acc.candidates,
                    NewCandidate(Len(acc.candidates), el, infer_label(el),
                                 build_selector(el.tag, el.attrs, infer_label(el)))),
          nodes |-> Append(acc.nodes, node),
          seen_sigs |-> acc.seen_sigs
             \cup {Signature(build_selector(el.tag, el.attrs, infer_label(el)))}]

RECURSIVE ExtractFrom(_, _, _)
ExtractFrom(soup, visits, acc) ==
    IF visits = << >> THEN acc
    ELSE ExtractFrom(soup, Tail(visits), Visit(acc, soup[visits[1].node], visits[1].node))

\* extract_candidates("", soup=soup): the candidates and, beside them, the
\* elements they were built from.
Extraction(soup) ==
    ExtractFrom(soup, Visits(soup), [candidates |-> << >>, nodes |-> << >>, seen_sigs |-> {}])

extract_candidates(soup) == Extraction(soup).candidates


(***************************************************************************)
(* SpecExtract: extract_candidates applied to small trees.                 *)
(***************************************************************************)
MaxNodes == 3   \* elements in the tree

NoAttrs == [k \in {} |-> << >>]

Element(tag, attrs, text) ==
    [tag |-> tag, attrs |-> attrs, text |-> text, labelledby |-> NotFound,
     label_for |-> NotFound, parent_label |-> NotFound, form |-> << >>,
     options |-> << >>]

\* <button>Go</button>
e_go == Element("button", NoAttrs, <<"G", "o">>)
\* <button id="b">Go</button>
e_button_b == Element("button", "id" :> <<"b">>, <<"G", "o">>)
\* <div role="button" id="b">Go</div>
e_div_b == Element("div", ("role" :> <<"b", "u", "t", "t", "o", "n">>) @@ ("id" :> <<"b">>), <<"G", "o">>)
\* <button id="b" disabled>Go</button>
e_button_b_off == Element("button", ("id" :> <<"b">>) @@ ("disabled" :> << >>), <<"G", "o">>)
\* <a href="/x">Go</a>
e_link == Element("a", "href" :> <<"/", "x">>, <<"G", "o">>)
\* <a href="/x" role="link">  More </a>
e_link_role == Element("a", ("href" :> <<"/", "x">>) @@ ("role" :> <<"l", "i", "n", "k">>), <<"M", "o", "r", "e">>)
\* <input name="n">
e_input == Element("input", "name" :> <<"n">>, << >>)
\* <input type="HIDDEN" name="n">
e_input_hidden == Element("input", ("type" :> "HIDDEN") @@ ("name" :> <<"n">>), << >>)
\* <input name="n" style="Display: None">
e_input_none == Element("input", ("name" :> <<"n">>) @@ ("style" :> <<"D", "i", "s", "p", "l", "a", "y", ":", " ", "N", "o", "n", "e">>), << >>)
\* <textarea name="n" class="x sr-only"></textarea>
e_textarea_sr == Element("textarea", ("name" :> <<"n">>) @@ ("class" :> <<"x", " ", "s", "r", "-", "o", "n", "l", "y">>), << >>)
\* <select name="s" aria-disabled="TRUE"><option>one</option></select>
e_select_off ==
    [Element("select", ("name" :> <<"s">>) @@ ("aria-disabled" :> <<"T", "R", "U", "E">>), <<"o", "n", "e">>)
        EXCEPT !.options = <<<<"o", "n", "e">>>>]
\* <span role="link" aria-hidden="true">Go</span>
e_span_hidden == Element("span", ("role" :> <<"l", "i", "n", "k">>) @@ ("aria-hidden" :> <<"t", "r", "u", "e">>), <<"G", "o">>)
\* <span role="link">Go</span>
e_span == Element("span", "role" :> <<"l", "i", "n", "k">>, <<"G", "o">>)

Elements ==
    {e_go, e_button_b, e_div_b, e_button_b_off, e_link, e_link_role, e_input,
     e_input_hidden, e_input_none, e_textarea_sr, e_select_off, e_span_hidden, e_span}

Soups == UNION {[1..n -> Elements] : n \in 0..MaxNodes}

InitExtract ==
    /\ x_soup \in Soups
    /\ x_candidates = << >>
    /\ x_nodes = << >>
    /\ x_pc = "input"
    /\ b_decision = NoDecision
    /\ b_candidates = << >>
    /\ b_url = << >>
    /\ b_step = 0
    /\ b_fixed = FixedNone
    /\ b_result = ReturnedNone
    /\ b_pc = "-"
    /\ DecideQuiet
    /\ LoopQuiet
    /\ ActQuiet /\ SelectorQuiet /\ PageIRQuiet /\ FnQuiet

\* candidates = extract_candidates("", soup=x_soup)
CallExtractCandidates ==
    /\ x_pc = "input"
    /\ x_candidates' = extract_candidates(x_soup)
    /\ x_nodes' = Extraction(x_soup).nodes
    /\ x_pc' = "called"
    /\ UNCHANGED <<x_soup, inflight, sel_in, sel_out, ir_in, ir_out, fnVars>>
    /\ UNCHANGED <<buildVars, decideVars, loopVars>>

NextExtract == CallExtractCandidates

SpecExtract == InitExtract /\ [][NextExtract]_vars

\* The first of the seven queries that selects el (0: none does).
FirstQuery(el) ==
    IF \E q \in 1..Len(INTERACTIVE_SELECTORS) : Matches(INTERACTIVE_SELECTORS[q], el)
    THEN SetMin({q \in 1..Len(INTERACTIVE_SELECTORS) : Matches(INTERACTIVE_SELECTORS[q], el)})
    ELSE 0

\* Element m of the tree is met before element n by the two loops.
MetBefore(m, n) ==
    \/ FirstQuery(x_soup[m]) < FirstQuery(x_soup[n])
    \/ FirstQuery(x_soup[m]) = FirstQuery(x_soup[n]) /\ m < n

\* The elements of the tree that some query selects and no filter excludes.
Accepted ==
    {n \in 1..Len(x_soup) :
        FirstQuery(x_soup[n]) # 0 /\ ~Skipped(x_soup[n].tag, x_soup[n].attrs)}

\* The deduplication triple of element n of the tree.
TripleOf(n) ==
    Signature(build_selector(x_soup[n].tag, x_soup[n].attrs, infer_label(x_soup[n])))

\* C14: the candidate at position i has id i (ids are 0..N-1 without gap
\* or repeat), and the candidates come in the order of the seven queries
\* and, within one query, in document order.
C14_DenseIdsInQueryOrder ==
    x_pc = "called" =>
        /\ Len(x_nodes) = Len(x_candidates)
        /\ \A i \in 1..Len(x_candidates) : x_candidates[i].id = i - 1
        /\ \A i, j \in 1..Len(x_candidates) :
              i < j => MetBefore(x_nodes[i], x_nodes[j])

\* An input, a button and a link in that document order: the button is
\* candidate 0, the link candidate 1, the input candidate 2.
C14_Witness ==
    /\ x_pc = "called"
    /\ x_soup = <<e_input, e_go, e_link>>
    /\ x_nodes = <<2, 3, 1>>
    /\ x_candidates[3].id = 2
    /\ x_candidates[3].tag = "input"

\* C15: no two returned candidates share the triple (selector type,
\* attribute, value); of several accepted elements with one triple only the
\* first one the loops meet is a candidate.
C15_NoDuplicateSignature ==
    x_pc = "called" =>
        /\ \A i, j \in 1..Len(x_candidates) :
              i # j => Signature(x_candidates[i].selector) # Signature(x_candidates[j].selector)
        /\ \A i \in 1..Len(x_candidates) :
              /\ Signature(x_candidates[i].selector) = TripleOf(x_nodes[i])
              /\ \A n \in Accepted :
                    TripleOf(n) = TripleOf(x_nodes[i]) /\ n # x_nodes[i] =>
                        MetBefore(x_nodes[i], n)

\* <div role="button" id="b"> before <button id="b">: one candidate, built
\* from the button, which the first query selects.
C15_Witness ==
    /\ x_pc = "called"
    /\ x_soup = <<e_div_b, e_button_b>>
    /\ x_nodes = <<2>>
    /\ Len(x_candidates) = 1

\* C16: no returned candidate is built from an element that is_hidden or
\* is_disabled excludes nor from an input of type hidden, whatever its tag
\* and the query; the filter comes before the deduplication, so an
\* excluded element never takes the triple of an accepted one.
C16_NoHiddenOrDisabled ==
    x_pc = "called" =>
        /\ \A i \in 1..Len(x_candidates) :
              /\ ~is_hidden(x_soup[x_nodes[i]].attrs)
              /\ ~is_disabled(x_soup[x_nodes[i]].attrs)
              /\ ~(/\ x_soup[x_nodes[i]].tag = "input"
                   /\ TypeLower(TypeOf(x_soup[x_nodes[i]].attrs)) = "hidden")
        /\ \A n \in Accepted :
              \E i \in 1..Len(x_candidates) :
                  Signature(x_candidates[i].selector) = TripleOf(n)

\* A disabled <button id="b"> before an enabled one: the enabled button is
\* the candidate for the triple both would give.
C16_Witness ==
    /\ x_pc = "called"
    /\ x_soup = <<e_button_b_off, e_button_b, e_input_none>>
    /\ x_nodes = <<2>>
    /\ x_candidates[1].selector = sel_attr("id", <<"b">>)


(***************************************************************************)
(* SpecSelector: build_selector applied to a tag, an attribute map and a   *)
(* text.                                                                   *)
(***************************************************************************)
\* The marker of an attribute the element does not carry.
Absent == <<"-", "absent">>

\* The values each attribute takes in the inputs.
AttributeValues ==
    [id |-> {Absent, << >>, <<"i">>},
     testid |-> {Absent, <<"t">>},
     href |-> {Absent, <<"/", "x">>, <<"J", "a", "v", "a", "S", "c", "r", "i", "p", "t", ":", "v", "o", "i", "d", "(", "0", ")">>},
     aria |-> {Absent, <<"l">>},
     name |-> {Absent, <<"n">>},
     placeholder |-> {Absent, <<"p">>},
     title |-> {Absent, <<"t">>},
     class |-> {Absent, <<"c">>}]

AttributeNames ==
    [id |-> "id", testid |-> "data-testid", href |-> "href", aria |-> "aria-label",
     name |-> "name", placeholder |-> "placeholder", title |-> "title", class |-> "class"]

\* The attrs map of a choice of values: the attributes not Absent.
AttrsOf(choice) ==
    [k \in {AttributeNames[f] : f \in {g \in DOMAIN choice : choice[g] # Absent}} |->
        choice[CHOOSE f \in DOMAIN choice : AttributeNames[f] = k]]

SelectorInputs ==
    {[tag |-> tag, attrs |-> AttrsOf(choice), text |-> text] :
        tag \in {"a", "button", "input"},
        choice \in [id : AttributeValues.id, testid : AttributeValues.testid,
                    href : AttributeValues.href, aria : AttributeValues.aria,
                    name : AttributeValues.name,
                    placeholder : AttributeValues.placeholder,
                    title : AttributeValues.title, class : AttributeValues.class],
        text \in {<< >>, <<"G", "o">>}}

NotCalled == [called |-> FALSE, selector |-> NoSelector]

InitSelector ==
    /\ sel_in \in SelectorInputs
    /\ sel_out = NotCalled
    /\ b_decision = NoDecision
    /\ b_candidates = << >>
    /\ b_url = << >>
    /\ b_step = 0
    /\ b_fixed = FixedNone
    /\ b_result = ReturnedNone
    /\ b_pc = "-"
    /\ DecideQuiet
    /\ LoopQuiet
    /\ ActQuiet /\ ExtractQuiet /\ PageIRQuiet /\ FnQuiet

\* selector = build_selector(tag, attrs, text=text)
CallBuildSelector ==
    /\ ~sel_out.called
    /\ sel_out' = [called |-> TRUE,
                   selector |-> build_selector(sel_in.tag, sel_in.attrs, sel_in.text)]
    /\ UNCHANGED <<sel_in, inflight, x_soup, x_candidates, x_nodes, x_pc, ir_in, ir_out, fnVars>>
    /\ UNCHANGED <<buildVars, decideVars, loopVars>>

NextSelector == CallBuildSelector

SpecSelector == InitSelector /\ [][NextSelector]_vars

\* The input carries attribute k with a non-empty value.
Carries(k) == k \in DOMAIN sel_in.attrs /\ sel_in.attrs[k] # << >>

\* The value of attribute k of the input, << >> when it is absent.
ValueOf(k) == IF k \in DOMAIN sel_in.attrs THEN sel_in.attrs[k] ELSE << >>

\* The rules in the order of priority: whether each applies to the input
\* and the selector it gives.
SelectorRules ==
    <<[on |-> Carries("id"), attribute |-> "id"],
      [on |-> Carries("data-testid"), attribute |-> "data-testid"],
      [on |-> /\ sel_in.tag = "a"
              /\ Carries("href")
              /\ ~StartsWith(Lower(ValueOf("href")), <<"j", "a", "v", "a", "s", "c", "r", "i", "p", "t", ":">>),
       attribute |-> "href"],
      [on |-> Carries("aria-label"), attribute |-> "aria-label"],
      [on |-> Carries("name"), attribute |-> "name"],
      [on |-> Carries("placeholder"), attribute |-> "placeholder"],
      [on |-> Carries("title"), attribute |-> "title"],
      [on |-> sel_in.text # << >> /\ sel_in.tag \in {"button", "a"}, attribute |-> "text"],
      [on |-> TRUE, attribute |-> "custom"]>>

FirstRule == CHOOSE i \in 1..Len(SelectorRules) :
                /\ SelectorRules[i].on
                /\ \A j \in 1..(i - 1) : ~SelectorRules[j].on

\* C17: build_selector returns, for every tag, attribute map and text, the
\* selector of the first rule that applies in the order id, data-testid,
\* href (anchors, not javascript:), aria-label, name, placeholder, title,
\* text (buttons and anchors), tag name under the attribute custom; it is
\* never a selector on class.
C17_SelectorPriority ==
    sel_out.called =>
        /\ sel_out.selector.attribute # "class"
        /\ sel_out.selector =
              (CASE SelectorRules[FirstRule].attribute = "text" ->
                        [type |-> "tagContainsSelector", attribute |-> "",
                         value |-> sel_in.text, case_sensitive |-> FALSE]
                 [] SelectorRules[FirstRule].attribute = "custom" ->
                        [type |-> "attributeValueSelector", attribute |-> "custom",
                         value |-> TagChars(sel_in.tag), case_sensitive |-> FALSE]
                 [] OTHER ->
                        [type |-> "attributeValueSelector",
                         attribute |-> SelectorRules[FirstRule].attribute,
                         value |-> ValueOf(SelectorRules[FirstRule].attribute),
                         case_sensitive |-> FALSE])

\* An anchor with id, data-testid and href: the id is chosen.
C17_Witness ==
    /\ sel_out.called
    /\ sel_in.tag = "a"
    /\ Carries("id") /\ Carries("data-testid") /\ Carries("href")
    /\ sel_out.selector.attribute = "id"
    /\ sel_out.selector.value = <<"i">>

(***************************************************************************)
(* parsing/page_ir.py: build_page_ir and _truncate_ir.  Only the lengths   *)
(* of the texts matter to the size of the result: a line is the kind of    *)
(* line build_page_ir writes and the number of its characters.  The        *)
(* prefix tests of _truncate_ir (URL:, TITLE:, "  h", TEXT:, "[") sort     *)
(* the lines by that kind.  n is the candidate's id in an element line     *)
(* and the number written in the truncation notice, 0 elsewhere.           *)
(***************************************************************************)
Line(kind, len) == [kind |-> kind, len |-> len, n |-> 0]

Min(a, b) == IF a < b THEN a ELSE b

\* len("\n".join(lines))
RECURSIVE SumLen(_)
SumLen(lines) == IF lines = << >> THEN 0 ELSE lines[1].len + SumLen(Tail(lines))

JoinLen(lines) == IF lines = << >> THEN 0 ELSE SumLen(lines) + Len(lines) - 1

\* sum(len(l) + 1 for l in lines)
CostOf(lines) == SumLen(lines) + Len(lines)

\* The lines of one kind, in order.
RECURSIVE OfKinds(_, _)
OfKinds(lines, kinds) ==
    IF lines = << >> THEN << >>
    ELSE (IF lines[1].kind \in kinds THEN <<lines[1]>> ELSE << >>)
         \o OfKinds(Tail(lines), kinds)

\* char_limit = int(max_tokens * 4 * 0.9)
char_limit(max_tokens) == (max_tokens * 36) \div 10

\* The list "lines" of build_page_ir (lines 131-150).  headings holds the
\* lengths of the non-empty h1-h3 texts, body the length of the tree's
\* text, elements the lengths of the candidates' one-liners.
PageLines(in) ==
    <<Line("url", 5 + in.url), Line("title", 7 + in.title), Line("blank", 0),
      Line("structure", 15)>>
    \o [i \in 1..Len(in.headings) |-> Line("heading", 6 + Min(in.headings[i], 80))]
    \o (IF in.body > 0 THEN <<Line("text", 6 + Min(in.body, 500))>> ELSE << >>)
    \o <<Line("blank", 0), Line("elements", 21)>>
    \o [i \in 1..Len(in.elements) |-> [Line("element", in.elements[i]) EXCEPT !.n = i - 1]]

\* Mutant of Notice: the line that does not fit is not counted.
Notice_OneLess(remaining) ==
    [Line("notice", 30 + Len(Decimal(remaining - 1))) EXCEPT !.n = remaining - 1]

\* f"... ({remaining} more elements truncated)"
Notice(remaining) ==
    [Line("notice", 30 + Len(Decimal(remaining))) EXCEPT !.n = remaining]

\* The loop over element_lines (lines 211-223) from element i on.
RECURSIVE AddElements(_, _, _)
AddElements(acc, element_lines, i) ==
    IF i > Len(element_lines) THEN acc
    ELSE IF acc.budget - (element_lines[i].len + 1) > 80
    THEN AddElements([result |-> Append(acc.result, element_lines[i]),
                      budget |-> acc.budget - (element_lines[i].len + 1)],
                     element_lines, i + 1)
    ELSE [result |-> Append(acc.result, Notice(Len(element_lines) - (i - 1))),
          budget |-> acc.budget - (Notice(Len(element_lines) - (i - 1)).len + 1)]

\* The loop over heading_lines (lines 231-237) from heading i on.
RECURSIVE AddHeadings(_, _, _)
AddHeadings(acc, heading_lines, i) ==
    IF i > Len(heading_lines) THEN acc
    ELSE IF acc.budget - (heading_lines[i].len + 1) > 0
    THEN AddHeadings([result |-> Append(acc.result, heading_lines[i]),
                      budget |-> acc.budget - (heading_lines[i].len + 1)],
                     heading_lines, i + 1)
    ELSE acc

\* Lines 199-207: URL, TITLE, a blank line and the elements header.
WithHeader(header_lines, limit) ==
    [result |-> header_lines \o <<Line("blank", 0), Line("elements", 21)>>,
     budget |-> limit - CostOf(header_lines \o <<Line("blank", 0)>>) - 22]

\* Lines 226-237: the page structure, if space allows.
WithStructure(acc, heading_lines) ==
    IF acc.budget > 100 /\ heading_lines # << >>
    THEN AddHeadings([result |-> acc.result \o <<Line("blank", 0), Line("structure", 15)>>,
                      budget |-> acc.budget - 17],
                     heading_lines, 1)
    ELSE acc

\* Lines 240-245: the body text, cut to the remaining budget.
WithText(acc, text_lines) ==
    IF acc.budget > 200 /\ text_lines # << >>
    THEN Append(acc.result,
                Line("text", Min(text_lines[Len(text_lines)].len, acc.budget - 1)))
    ELSE acc.result

\* Mutant of _truncate_ir: the lines are returned uncut.
_truncate_ir_Uncut(lines, limit) == lines

\* _truncate_ir(lines, candidates, char_limit): the lines it joins
_truncate_ir(lines, limit) ==
    WithText(WithStructure(AddElements(WithHeader(OfKinds(lines, {"url", "title"}), limit),
                                       OfKinds(lines, {"element"}), 1),
                           OfKinds(lines, {"heading"})),
             OfKinds(lines, {"text"}))

\* build_page_ir(soup, url, title, candidates, max_tokens=max_tokens): the
\* lines of the text returned
build_page_ir(in) ==
    IF JoinLen(PageLines(in)) > char_limit(in.max_tokens)
    THEN _truncate_ir(PageLines(in), char_limit(in.max_tokens))
    ELSE PageLines(in)

(***************************************************************************)
(* SpecPageIR: build_page_ir applied to pages of various sizes.            *)
(***************************************************************************)
\* n element lines of k characters each
Repeat(n, k) == [i \in 1..n |-> k]
\* n element lines of k + 1, k + 2, ... characters
Ramp(n, k) == [i \in 1..n |-> k + i]

PageInputs ==
    [url : {22, 4400},
     title : {0, 12, 5000},
     headings : {<< >>, <<5>>, <<80, 200>>},
     body : {0, 40, 900},
     elements : {Repeat(0, 30), Repeat(3, 30), Repeat(3, 80), Repeat(60, 30), Repeat(60, 80),
                 Ramp(5, 60), Ramp(30, 150)},
     max_tokens : {300, 1200}]

NoPage == [called |-> FALSE, lines |-> << >>, len |-> 0]

InitPageIR ==
    /\ ir_in \in PageInputs
    /\ ir_out = NoPage
    /\ b_decision = NoDecision
    /\ b_candidates = << >>
    /\ b_url = << >>
    /\ b_step = 0
    /\ b_fixed = FixedNone
    /\ b_result = ReturnedNone
    /\ b_pc = "-"
    /\ DecideQuiet
    /\ LoopQuiet
    /\ ActQuiet /\ ExtractQuiet /\ SelectorQuiet /\ FnQuiet

\* page_ir = build_page_ir(pruned_soup, url, title, candidates)
CallBuildPageIR ==
    /\ ~ir_out.called
    /\ ir_out' = [called |-> TRUE, lines |-> build_page_ir(ir_in),
                  len |-> JoinLen(build_page_ir(ir_in))]
    /\ UNCHANGED <<ir_in, inflight, x_soup, x_candidates, x_nodes, x_pc, sel_in, sel_out, fnVars>>
    /\ UNCHANGED <<buildVars, decideVars, loopVars>>

NextPageIR == CallBuildPageIR

SpecPageIR == InitPageIR /\ [][NextPageIR]_vars

\* C18: for every url, title, headings, body text, candidate list and
\* max_tokens, the text build_page_ir returns is at most
\* char_limit = floor(max_tokens * 4 * 0.9) characters long.
C18_WithinCharLimit ==
    ir_out.called => ir_out.len <= char_limit(ir_in.max_tokens)

(***************************************************************************)
(* Properties of the navigate branch of build_action, stated on SpecBuild. *)
(***************************************************************************)
\* The url string of the decision: "" when the field is missing or None.
RawUrl == IF b_decision.url.t = "str" THEN b_decision.url.s ELSE << >>

\* The decision's url read as a reference: an absolute or protocol-relative
\* url as it stands, a relative one from the root.
Reference ==
    IF urlsplit(RawUrl).scheme # << >> \/ urlsplit(RawUrl).netloc # << >>
          \/ StartsWith(RawUrl, s_slash)
    THEN urlsplit(RawUrl)
    ELSE urlsplit(s_slash \o RawUrl)

ReturnsNavigate ==
    /\ b_pc = "called"
    /\ b_result.kind = "action"
    /\ b_result.action.type = "NavigateAction"

IsPrefix(s, t) == Len(s) <= Len(t) /\ SubSeq(t, 1, Len(s)) = s

\* C19: every NavigateAction build_action returns has a url on
\* http://localhost that keeps the path, the query fields and the fragment
\* of the decision's url, whatever the decision's url field is (absolute,
\* protocol-relative, relative, empty or missing).
C19_NavigateOnLocalhost ==
    ReturnsNavigate =>
        LET got == urlsplit(b_result.action.url)
        IN  /\ got.ok
            /\ got.scheme = s_http
            /\ got.netloc = s_localhost
            /\ got.path = Reference.path
            /\ got.fragment = Reference.fragment
            /\ IsPrefix(parse_qsl(Reference.query), parse_qsl(got.query))

\* The same for the decisions whose url is a non-empty string.
NavigateOnLocalhost_NonEmpty == RawUrl # << >> => C19_NavigateOnLocalhost

\* Two urls have the same path and query, scheme, host and fragment ignored.
SamePage(url_a, url_b) ==
    /\ urlsplit(url_a).ok /\ urlsplit(url_b).ok
    /\ urlsplit(url_a).path = urlsplit(url_b).path
    /\ urlsplit(url_a).query = urlsplit(url_b).query

\* The url of a navigate decision after normalisation and seed propagation.
FinalUrl == preserve_seed(normalize_url(PyStr(RawUrl)).url, b_url)

\* C20: build_action never returns a NavigateAction whose url, after
\* normalisation and seed propagation, has the same path and query as
\* current_url; for such a navigate decision it returns a ScrollAction
\* with down set.
C20_NoNavigateToSamePage ==
    /\ ReturnsNavigate => ~SamePage(b_result.action.url, b_url)
    /\ (/\ b_pc = "called"
        /\ Is(b_decision.action, s_navigate)
        /\ normalize_url(PyStr(RawUrl)).ok
        /\ FinalUrl.ok
        /\ SamePage(FinalUrl.url, b_url)) =>
            b_result = Returned(ScrollAction(TRUE, FALSE))

\* The same when neither url is the empty string.
NoNavigateToSamePage_NonEmpty ==
    (RawUrl # << >> /\ b_url # << >>) => C20_NoNavigateToSamePage

(***************************************************************************)
(* SpecUrl: preserve_seed and normalize_url applied to url strings.        *)
(***************************************************************************)
t_b == <<"h", "t", "t", "p", ":", "/", "/", "l", "o", "c", "a", "l", "h", "o", "s", "t", "/", "b">>
t_b_seed == <<"h", "t", "t", "p", ":", "/", "/", "l", "o", "c", "a", "l", "h", "o", "s", "t", "/", "b", "?", "s", "e", "e", "d", "=", "9">>
t_b_mixed == <<"h", "t", "t", "p", ":", "/", "/", "l", "o", "c", "a", "l", "h", "o", "s", "t", "/", "b", "?", "x", "=", "1", "&", "s", "e", "e", "d", "=", "9", "#", "f">>
t_rel == <<"/", "b", "?", "a", "=", "%", "2", "0", "&", "b">>
t_wid == <<"h", "t", "t", "p", ":", "/", "/", "l", "o", "c", "a", "l", "h", "o", "s", "t", "/", "b", "?", "w", "e", "b", "_", "a", "g", "e", "n", "t", "_", "i", "d", "=", "w">>
t_multi == <<"h", "t", "t", "p", ":", "/", "/", "l", "o", "c", "a", "l", "h", "o", "s", "t", "/", "b", "?", "a", "=", "1", "&", "c", "=", "3", "&", "a", "=", "2", "&", "v", "a", "l", "i", "d", "a", "t", "o", "r", "_", "i", "d", "=">>
t_ff == <<"h", "t", "t", "p", ":", "/", "/", "l", "o", "c", "a", "l", "h", "o", "s", "t", "/", "b", "?", "q", "=", "%", "F", "F">>
t_host == <<"h", "t", "t", "p", "s", ":", "/", "/", "h", "/", "b", "?", "x", "=", "1", "#", "f">>
t_bare == <<"h", "t", "t", "p", ":", "/", "/", "h">>
t_proto == <<"/", "/", "h", "/", "x", "?", "a", "=", "1">>
t_word == <<"x">>
t_query == <<"x", "?", "a", "=", "1", "#", "f">>
t_space == <<" ", "/", "x">>
t_slashes == <<"h", "t", "t", "p", ":", "/", "/", "h", "/", "/", "x">>

Targets ==
    {<< >>, t_b, t_b_seed, t_b_mixed, t_rel, t_wid, t_multi, t_ff, t_host, t_bare,
     t_proto, t_word, t_query, t_space, t_slashes, u_bracket}

cur_a == <<"h", "t", "t", "p", ":", "/", "/", "l", "o", "c", "a", "l", "h", "o", "s", "t", "/", "a">>
cur_seed == <<"h", "t", "t", "p", ":", "/", "/", "l", "o", "c", "a", "l", "h", "o", "s", "t", "/", "a", "?", "s", "e", "e", "d", "=", "4", "2">>
cur_two == <<"h", "t", "t", "p", ":", "/", "/", "l", "o", "c", "a", "l", "h", "o", "s", "t", "/", "a", "?", "s", "e", "e", "d", "=", "1", "&", "v", "a", "l", "i", "d", "a", "t", "o", "r", "_", "i", "d", "=", "v">>
cur_all == <<"h", "t", "t", "p", ":", "/", "/", "l", "o", "c", "a", "l", "h", "o", "s", "t", "/", "a", "?", "w", "e", "b", "_", "a", "g", "e", "n", "t", "_", "i", "d", "=", "w", "&", "s", "e", "e", "d", "=", "1", "&", "s", "e", "e", "d", "=", "2", "&", "o", "t", "h", "e", "r", "=", "z">>
cur_blank == <<"h", "t", "t", "p", ":", "/", "/", "l", "o", "c", "a", "l", "h", "o", "s", "t", "/", "a", "?", "s", "e", "e", "d", "=">>

Currents == {<< >>, cur_a, cur_seed, cur_two, cur_all, cur_blank}

UrlInputs == [target : Targets, current : Currents]

NoUrl == [ok |-> FALSE, url |-> << >>]
NotApplied == [op |-> "-", once |-> NoUrl, twice |-> NoUrl]

InitUrl ==
    /\ u_in \in UrlInputs
    /\ u_out = NotApplied
    /\ b_decision = NoDecision
    /\ b_candidates = << >>
    /\ b_url = << >>
    /\ b_step = 0
    /\ b_fixed = FixedNone
    /\ b_result = ReturnedNone
    /\ b_pc = "-"
    /\ DecideQuiet
    /\ LoopQuiet
    /\ ActQuiet /\ ExtractQuiet /\ SelectorQuiet /\ PageIRQuiet
    /\ LabelQuiet /\ ContextQuiet /\ ClientQuiet

UrlUnchanged ==
    UNCHANGED <<u_in, buildVars, decideVars, loopVars, inflight, x_soup, x_candidates,
                x_nodes, x_pc, sel_in, sel_out, ir_in, ir_out, lb_in, lb_out, cx_in,
                cx_out, c_log, c_pc>>

\* preserve_seed(target_url, current_url)
CallPreserveSeed ==
    /\ u_out = NotApplied
    /\ u_out' = [op |-> "preserve_seed",
                 once |-> preserve_seed(u_in.target, u_in.current),
                 twice |-> NoUrl]
    /\ UrlUnchanged

\* normalize_url(normalize_url(x)); the inner call raising ends the outer one
Again(once) == IF once.ok THEN normalize_url(PyStr(once.url)) ELSE NoUrl

\* normalize_url(x) and normalize_url(normalize_url(x))
CallNormalizeUrl ==
    /\ u_out = NotApplied
    /\ u_out' = [op |-> "normalize_url",
                 once |-> normalize_url(PyStr(u_in.target)),
                 twice |-> Again(normalize_url(PyStr(u_in.target)))]
    /\ UrlUnchanged

NextUrl == CallPreserveSeed \/ CallNormalizeUrl

SpecUrl == InitUrl /\ [][NextUrl]_vars

(***************************************************************************)
(* Properties of preserve_seed and normalize_url, stated on SpecUrl.       *)
(***************************************************************************)
HexDigits == Digits \cup {"A", "B", "C", "D", "E", "F", "a", "b", "c", "d", "e", "f"}

\* What a query name or value stands for, read byte by byte: "+" is a
\* space, %XX the character of that code where the model knows it and the
\* escape itself otherwise, and %25 the percent sign (written "%25" here to
\* keep it apart from the start of an escape).
RECURSIVE Meaning(_)
Meaning(s) ==
    IF s = << >> THEN << >>
    ELSE IF s[1] = "+" THEN <<" ">> \o Meaning(Tail(s))
    ELSE IF s[1] = "%" /\ Len(s) >= 3 /\ s[2] \in HexDigits /\ s[3] \in HexDigits
    THEN (IF \E e \in Escapes : e[1] = HexUpper(s[2]) /\ e[2] = HexUpper(s[3])
          THEN LET e == CHOOSE e \in Escapes : e[1] = HexUpper(s[2]) /\ e[2] = HexUpper(s[3])
               IN  IF e[3] = "%" THEN <<"%25">> ELSE <<e[3]>>
          ELSE <<"%", HexUpper(s[2]), HexUpper(s[3])>>)
         \o Meaning(SubSeq(s, 4, Len(s)))
    ELSE IF s[1] = "%" THEN <<"%25">> \o Meaning(Tail(s))
    ELSE <<s[1]>> \o Meaning(Tail(s))

\* The parameters of a query string, in order: <<name, value>> of each
\* non-empty field.
RECURSIVE FieldsOf(_)
FieldsOf(fields) ==
    IF fields = << >> THEN << >>
    ELSE LET f == Head(fields)
             eq == Find(f, "=")
         IN  (IF f = << >> THEN << >>
              ELSE IF eq > 0
              THEN << <<Meaning(SubSeq(f, 1, eq - 1)), Meaning(SubSeq(f, eq + 1, Len(f)))>> >>
              ELSE << <<Meaning(f), << >>>> >>)
             \o FieldsOf(Tail(fields))

Parameters(url) == FieldsOf(SplitOn(urlsplit(url).query, "&"))

\* The values a url's query gives to a name, in order.
RECURSIVE ValuesIn(_, _)
ValuesIn(params, name) ==
    IF params = << >> THEN << >>
    ELSE (IF Head(params)[1] = name THEN <<Head(params)[2]>> ELSE << >>)
         \o ValuesIn(Tail(params), name)

NamesIn(params) == {params[i][1] : i \in 1..Len(params)}

SeedKeys == {s_seed, s_web_agent_id, s_validator_id}

\* The keys preserve_seed is to add: carried by current, lacking on target.
ToAdd(target, current) ==
    {k \in SeedKeys : k \in NamesIn(Parameters(current)) /\ k \notin NamesIn(Parameters(target))}

PreserveSeedReturned == u_out.op = "preserve_seed" /\ u_out.once.ok

\* The keys added are exactly those to add, with current's values.
AddsMissingKeys ==
    /\ NamesIn(Parameters(u_out.once.url)) =
          NamesIn(Parameters(u_in.target)) \cup ToAdd(u_in.target, u_in.current)
    /\ \A k \in ToAdd(u_in.target, u_in.current) :
          ValuesIn(Parameters(u_out.once.url), k) = ValuesIn(Parameters(u_in.current), k)

\* Every parameter of the target keeps its values.
KeepsParameters ==
    \A n \in NamesIn(Parameters(u_in.target)) :
        ValuesIn(Parameters(u_out.once.url), n) = ValuesIn(Parameters(u_in.target), n)

\* Scheme, host, path and fragment are the target's.
KeepsLocation ==
    /\ urlsplit(u_out.once.url).scheme = urlsplit(u_in.target).scheme
    /\ urlsplit(u_out.once.url).netloc = urlsplit(u_in.target).netloc
    /\ urlsplit(u_out.once.url).path = urlsplit(u_in.target).path
    /\ urlsplit(u_out.once.url).fragment = urlsplit(u_in.target).fragment

\* C21: preserve_seed(target, current) adds to the target's query exactly
\* those of seed, web_agent_id and validator_id that current carries and
\* target lacks, with current's values; a key already on target keeps
\* target's value; every other parameter of target, and its scheme, host,
\* path and fragment, are unchanged.
C21_PreserveSeed ==
    PreserveSeedReturned => AddsMissingKeys /\ KeepsParameters /\ KeepsLocation

\* The same with the two cases apart: an empty target, and a target
\* parameter that is not percent-encoded UTF-8.
PreserveSeed_Utf8 ==
    (u_in.target \notin {<< >>, t_ff}) => C21_PreserveSeed

Truncated ==
    /\ ir_out.called
    /\ JoinLen(PageLines(ir_in)) > char_limit(ir_in.max_tokens)

\* The lines of the kinds named that the result holds.
Kept(kinds) == OfKinds(ir_out.lines, kinds)

KeepsAllHeadings == Len(Kept({"heading"})) = Len(OfKinds(PageLines(ir_in), {"heading"}))
KeepsAllElements == Len(Kept({"element"})) = Len(ir_in.elements)

\* C23: in a truncated Page IR, TEXT is dropped first, then headings, then
\* element lines: a result with the TEXT line holds every heading and every
\* element line, a result with a heading line holds every element line; the
\* URL and TITLE lines and the INTERACTIVE ELEMENTS: header are always there.
C23_DropOrder ==
    Truncated =>
        /\ Kept({"text"}) # << >> => KeepsAllHeadings /\ KeepsAllElements
        /\ Kept({"heading"}) # << >> => KeepsAllElements
        /\ Len(Kept({"url"})) = 1 /\ Len(Kept({"title"})) = 1
        /\ Len(Kept({"elements"})) = 1

\* The part of C23 about the lines that are always present.
AlwaysPresent ==
    Truncated =>
        /\ Len(Kept({"url"})) = 1 /\ Len(Kept({"title"})) = 1
        /\ Len(Kept({"elements"})) = 1

\* C24: in a truncated Page IR the element lines kept are the lines of the
\* first candidates, in id order, and the notice "... (N more elements
\* truncated)" is there exactly when an element line is omitted, N being
\* the number of omitted element lines.
C24_ElementPrefix ==
    Truncated =>
        /\ Kept({"element"}) =
              SubSeq(OfKinds(PageLines(ir_in), {"element"}), 1, Len(Kept({"element"})))
        /\ Kept({"notice"}) # << >> <=> ~KeepsAllElements
        /\ Len(Kept({"notice"})) <= 1
        /\ \A i \in 1..Len(Kept({"notice"})) :
              Kept({"notice"})[i].n = Len(ir_in.elements) - Len(Kept({"element"}))

\* Some element lines of different lengths were kept, others omitted.
C24_Witness ==
    /\ Truncated
    /\ ir_in.elements = Ramp(30, 150)
    /\ Len(Kept({"element"})) >= 2
    /\ Len(Kept({"notice"})) = 1
    /\ Kept({"notice"})[1].n >= 2

(***************************************************************************)
(* SpecLabel: infer_label applied to one element.                          *)
(***************************************************************************)
\* The attribute k with value v, or no attribute.
Attr(k, v) == IF v = Absent THEN NoAttrs ELSE k :> v

\* 125 characters of inner text
LongText == [i \in 1..125 |-> "a"]

LabelInputs ==
    {[tag |-> tag,
      attrs |-> Attr("role", c.role) @@ Attr("aria-label", c.aria) @@
                Attr("placeholder", c.placeholder) @@ Attr("title", c.title) @@
                Attr("aria-labelledby", c.labelledby) @@ Attr("id", c.id),
      text |-> text,
      labelledby |-> IF c.labelledby = <<"x", " ", "y">> THEN l5 ELSE NotFound,
      label_for |-> IF c.id = <<"i">> THEN l6 ELSE NotFound,
      parent_label |-> l7,
      form |-> << >>, options |-> << >>] :
        tag \in {"button", "div"},
        text \in {<< >>, <<"G", "o">>, LongText},
        c \in [role : {Absent, <<"b", "u", "t", "t", "o", "n">>},
               aria : {Absent, <<" ">>, <<"A", " ", " ", "b">>},
               placeholder : {Absent, <<" ">>, <<"P">>},
               title : {Absent, <<"T">>},
               labelledby : {Absent, <<" ">>, <<"x", " ", "y">>},
               id : {Absent, <<"i">>}],
        l5 \in {NotFound, Found(<< >>), Found(<<"L", "1">>)},
        l6 \in {NotFound, Found(<<"L", "2">>)},
        l7 \in {NotFound, Found(<<"L", " ", "3">>)}}

NoLabel == [kind |-> "-", label |-> << >>, exc |-> "-"]

InitLabel ==
    /\ lb_in \in LabelInputs
    /\ lb_out = NoLabel
    /\ b_decision = NoDecision
    /\ b_candidates = << >>
    /\ b_url = << >>
    /\ b_step = 0
    /\ b_fixed = FixedNone
    /\ b_result = ReturnedNone
    /\ b_pc = "-"
    /\ DecideQuiet
    /\ LoopQuiet
    /\ ActQuiet /\ ExtractQuiet /\ SelectorQuiet /\ PageIRQuiet
    /\ UrlQuiet /\ ContextQuiet /\ ClientQuiet

\* label = infer_label(soup, el, attrs)
CallInferLabel ==
    /\ lb_out = NoLabel
    /\ lb_out' = IF LabelRaises(lb_in)
                 THEN [kind |-> "raise", label |-> << >>, exc |-> "IndexError"]
                 ELSE [kind |-> "value", label |-> infer_label(lb_in), exc |-> "-"]
    /\ UNCHANGED <<lb_in, buildVars, decideVars, loopVars, inflight, x_soup, x_candidates,
                   x_nodes, x_pc, sel_in, sel_out, ir_in, ir_out, u_in, u_out, cx_in,
                   cx_out, c_log, c_pc>>

NextLabel == CallInferLabel

SpecLabel == InitLabel /\ [][NextLabel]_vars

(***************************************************************************)
(* Properties of infer_label, stated on SpecLabel.                         *)
(***************************************************************************)
\* The label sources of an element in priority order, each with its
\* whitespace collapsed; << >> for a source that is absent.
Sources(el) ==
    <<IF el.tag \in {"a", "button"} \/ AttrGet(el.attrs, "role") \in {<<"b", "u", "t", "t", "o", "n">>, <<"l", "i", "n", "k">>}
      THEN _norm_ws(el.text) ELSE << >>,
      _norm_ws(AttrGet(el.attrs, "aria-label")),
      _norm_ws(AttrGet(el.attrs, "placeholder")),
      _norm_ws(AttrGet(el.attrs, "title")),
      IF el.labelledby.found THEN _norm_ws(el.labelledby.text) ELSE << >>,
      IF el.label_for.found THEN _norm_ws(el.label_for.text) ELSE << >>,
      IF el.parent_label.found THEN _norm_ws(el.parent_label.text) ELSE << >> >>

\* The first source that is not empty, << >> when all are.
FirstNonEmpty(sources) ==
    IF \E i \in 1..Len(sources) : sources[i] # << >>
    THEN sources[SetMin({i \in 1..Len(sources) : sources[i] # << >>})]
    ELSE << >>

\* C25: infer_label returns the first of inner text, aria-label,
\* placeholder, title, aria-labelledby target text, label-for text and
\* ancestor label text that is non-empty after whitespace collapsing, cut
\* to 120 characters; a blank source is passed over, and the result is
\* empty only if every source is.
C25_FirstNonEmptySource ==
    lb_out.kind # "-" =>
        /\ lb_out.kind = "value"
        /\ lb_out.label = Clip(FirstNonEmpty(Sources(lb_in)))
        /\ Len(lb_out.label) <= 120

\* The same for elements none of whose label attributes is blank.
FirstNonEmptySource_NoBlank ==
    (\A k \in {"aria-label", "placeholder", "title", "aria-labelledby"} :
        AttrGet(lb_in.attrs, k) # <<" ">>) => C25_FirstNonEmptySource

\* ---------------------------------------------------------------------------
\* llm/client.py: LLMClient.chat_completions under its retry decorator
\* ---------------------------------------------------------------------------

stop_after_attempt == 3

Ok == [kind |-> "ok", code |-> 200, exc |-> "-"]

Status(code) == [kind |-> "status", code |-> code, exc |-> "HTTPStatusError"]

TransportError(exc) == [kind |-> "exception", code |-> 0, exc |-> exc]

\* What one transport attempt can end in: a 2xx response, a response that
\* raise_for_status turns into an HTTPStatusError, or an exception of post.
Outcomes ==
    {Ok}
    \cup {Status(code) : code \in {400, 401, 404, 429, 500, 501, 502, 503, 504}}
    \cup {TransportError(exc) : exc \in {"ConnectError", "ReadTimeout", "ConnectTimeout",
                                 "WriteTimeout", "PoolTimeout"}}

_is_retryable(exc) ==
    IF exc.exc = "HTTPStatusError"
    THEN exc.code \in {429, 500, 502, 503}
    ELSE exc.exc \in {"ConnectError", "ReadTimeout"}

InitClient ==
    /\ c_log = << >>
    /\ c_pc = "call"
    /\ b_decision = NoDecision
    /\ b_candidates = << >>
    /\ b_url = << >>
    /\ b_step = 0
    /\ b_fixed = FixedNone
    /\ b_result = ReturnedNone
    /\ b_pc = "-"
    /\ DecideQuiet
    /\ LoopQuiet
    /\ ActQuiet /\ ExtractQuiet /\ SelectorQuiet /\ PageIRQuiet
    /\ UrlQuiet /\ LabelQuiet /\ ContextQuiet

ClientUnchanged ==
    UNCHANGED <<buildVars, decideVars, loopVars, inflight, x_soup, x_candidates,
                x_nodes, x_pc, sel_in, sel_out, ir_in, ir_out, u_in, u_out, lb_in,
                lb_out, cx_in, cx_out>>

\* client.chat_completions(...): the decorator starts the first attempt
CallChatCompletions ==
    /\ c_pc = "call"
    /\ c_pc' = "attempt"
    /\ UNCHANGED c_log
    /\ ClientUnchanged

\* One run of the decorated body (post, raise_for_status, json) and the
\* decorator's decision on its outcome.
TransportAttempt ==
    /\ c_pc = "attempt"
    /\ \E outcome \in Outcomes :
        /\ c_log' = Append(c_log, outcome)
        /\ c_pc' = IF outcome.kind = "ok" THEN "returned"
                   ELSE IF ~_is_retryable(outcome) THEN "raised"
                   ELSE IF Len(c_log) + 1 >= stop_after_attempt THEN "retry_error"
                   ELSE "attempt"
    /\ ClientUnchanged

NextClient == CallChatCompletions \/ TransportAttempt

SpecClient == InitClient /\ [][NextClient]_vars

Finished == c_pc \in {"returned", "raised", "retry_error"}

Transient(outcome) ==
    \/ outcome.kind = "exception"
    \/ outcome.kind = "status" /\ (outcome.code = 429 \/ outcome.code \in 500..599)

Other4xx(outcome) ==
    outcome.kind = "status" /\ outcome.code \in 400..499 /\ outcome.code # 429

\* C26: one chat_completions call makes at most 3 attempts; after a connection
\* error, a timeout, a 429 or any 5xx it attempts again while fewer than 3
\* attempts were made; any other 4xx ends the call at once with the failure;
\* the call returns only when its last attempt succeeded.
C26_RetryPolicy ==
    /\ Len(c_log) <= stop_after_attempt
    /\ \A i \in 1..Len(c_log) :
        /\ (Transient(c_log[i]) /\ i < stop_after_attempt) =>
              (i < Len(c_log) \/ c_pc = "attempt")
        /\ Other4xx(c_log[i]) => (i = Len(c_log) /\ c_pc = "raised")
    /\ (Finished /\ c_log[Len(c_log)].kind # "ok") => c_pc \in {"raised", "retry_error"}

\* The same policy with "transient" read as the code reads it.
RetryPolicy_Retryable ==
    /\ Len(c_log) <= stop_after_attempt
    /\ \A i \in 1..Len(c_log) :
        /\ (c_log[i].kind # "ok" /\ _is_retryable(c_log[i]) /\ i < stop_after_attempt) =>
              (i < Len(c_log) \/ c_pc = "attempt")
        /\ (c_log[i].kind # "ok" /\ ~_is_retryable(c_log[i])) =>
              (i = Len(c_log) /\ c_pc = "raised")
    /\ (c_pc = "returned") <=> (c_log # << >> /\ c_log[Len(c_log)].kind = "ok")

(***************************************************************************)
(* The task-type shortcuts of decide, stated on SpecDecide.                *)
(***************************************************************************)
Times(step, steps) == Cardinality({i \in 1..Len(steps) : steps[i] = step})

\* decide has returned the action of a task-type shortcut
ShortcutAnswered == pc = "returned" /\ Shortcut(request).kind = "return"

\* C27: when a task-type shortcut yields an action, decide returns that one
\* action without building the Page IR, without calling check_loop (the loop
\* state is left as it was) and without an LLM call; prune_html and
\* extract_candidates run exactly once for every request.
C27_ShortcutBypass ==
    /\ [](request # NoRequest =>
            /\ Times("prune_html", d_steps) = 1
            /\ Times("extract_candidates", d_steps) = 1)
    /\ [](ShortcutAnswered =>
            /\ Len(response.actions) = 1
            /\ response.actions = Shortcut(request).actions
            /\ Times("build_page_ir", d_steps) = 0
            /\ Times("check_loop", d_steps) = 0
            /\ Times("chat_completions", d_steps) = 0
            /\ llm_calls = 0)
    /\ []((pc = "returned" /\ llm_calls = 0) => ShortcutAnswered)
    /\ [][(pc = "idle" /\ pc' = "returned" /\ llm_calls' = 0) =>
              _TASK_STATE' = _TASK_STATE]_vars

\* A shortcut has answered a request with history for a task that has a
\* loop-state entry.
C27_Witness ==
    /\ ShortcutAnswered
    /\ request.history # << >>
    /\ request.task_id \in DOMAIN _TASK_STATE

\* The request being handled is a login task on a page where
\* detect_login_fields finds all three fields.
LoginPage ==
    /\ request # NoRequest
    /\ classify_task(request.prompt) = "login"
    /\ detect_login_fields(request.page).found

\* The candidate detect_login_fields names by its id (ids are list positions).
LoginField(id) == request.page[id.n + 1]

OnSelectorOf(action, c) ==
    /\ action.selector.type = c.selector.type
    /\ action.selector.value = c.selector.value
    /\ c.selector.type = "attributeValueSelector" =>
          action.selector.attribute = c.selector.attribute

\* decide answered from the shortcut with this one action, without the LLM
Hardcoded(type, c) ==
    /\ pc = "returned"
    /\ llm_calls = 0
    /\ Len(response.actions) = 1
    /\ response.actions[1].type = type
    /\ OnSelectorOf(response.actions[1], c)

\* C28: for a login prompt on a page with username, password and submit
\* detected, decide returns at step_index 0 a TypeAction on the username
\* candidate's selector, at 1 a TypeAction on the password candidate's, at 2 a
\* ClickAction on the submit candidate's, and from 3 on takes the LLM path;
\* the action of step 0 addresses neither the password nor the submit
\* candidate.
C28_LoginSequence ==
    LoginPage =>
        LET fields == detect_login_fields(request.page)
        IN  /\ request.step_index = 0 =>
                 /\ Hardcoded("TypeAction", LoginField(fields.username_id))
                 /\ ~OnSelectorOf(response.actions[1], LoginField(fields.password_id))
                 /\ ~OnSelectorOf(response.actions[1], LoginField(fields.submit_id))
            /\ request.step_index = 1 =>
                 Hardcoded("TypeAction", LoginField(fields.password_id))
            /\ request.step_index = 2 =>
                 Hardcoded("ClickAction", LoginField(fields.submit_id))
            /\ request.step_index >= 3 =>
                 /\ Times("build_page_ir", d_steps) = 1
                 /\ pc = "llm" \/ llm_calls >= 1

\* The username has been typed at step 0 of a login task.
C28_Witness ==
    /\ LoginPage
    /\ request.step_index = 0
    /\ pc = "returned"
    /\ response.actions[1].text = s_username_ph

\* The sequence is over and the LLM has been asked.
LoginSequence_Over == LoginPage /\ request.step_index = 3 /\ llm_calls = 1

\* decide answers the request of task t with the done signal: the one place
\* where clear_task_state is called (loop.py:321-328).
DoneFor(t) ==
    /\ pc = "llm"
    /\ request.task_id = t
    /\ pc' = "returned"
    /\ response'.actions = << >>

\* decide receives a request of task t and calls check_loop for it
\* (loop.py:251-254).
CheckLoopFor(t) ==
    /\ pc = "idle"
    /\ request'.task_id = t
    /\ request'.history # << >>
    /\ Times("check_loop", d_steps') = 1

_norm_context_ws(s) == Strip(Squeeze(s))

\* text[:180]
Clip180(s) == SubSeq(s, 1, IF Len(s) < 180 THEN Len(s) ELSE 180)

\* _pick_context_container(el); ancestors are el.parent, its parent and so
\* on, each with its tag and its get_text(" ", strip=True).  The walk takes
\* 8 steps at most and ends at body or html.
_pick_context_container(ancestors) ==
    LET len(i) == Len(_norm_context_ws(ancestors[i].text))
        card(i) ==
            \/ ancestors[i].tag \in {"li", "tr", "article"} /\ 20 < len(i) /\ len(i) < 900
            \/ ancestors[i].tag = "div" /\ 50 < len(i) /\ len(i) < 900
        walked == {i \in 1..Len(ancestors) :
                     i <= 8 /\ \A j \in 1..i : ancestors[j].tag \notin {"body", "html"}}
    IN  IF \E i \in walked : card(i)
        THEN Clip180(_norm_context_ws(ancestors[SetMin({i \in walked : card(i)})].text))
        ELSE << >>

\* "context = ''; if tag in ('a', 'button'): context = _pick_context_container(el)"
ContextOf(tag, ancestors) ==
    IF tag \in {"a", "button"} THEN _pick_context_container(ancestors) ELSE << >>

Node(tag, text) == [tag |-> tag, text |-> text]

\* n characters without whitespace
Chars(n) == [i \in 1..n |-> "a"]

\* 52 characters that collapse to 50: a run of three spaces inside
Gapped == Chars(30) \o <<" ", " ", " ">> \o Chars(19)

ContainerTexts == {Chars(n) : n \in {0, 4, 20, 21, 50, 51, 181, 899, 900}} \cup {Gapped}

Containers == {Node(tag, text) : tag \in {"li", "tr", "article", "div", "section"},
                                 text \in ContainerTexts}

\* Ancestors that are passed over on the way up.
Inner == {Node("span", Chars(4)), Node("div", Chars(20)), Node("li", Chars(900))}

\* k spans around the element
Spans(k) == [i \in 1..k |-> Node("span", Chars(4))]

Chains ==
    {<< >>}
      \cup {<<c>> : c \in Containers}
      \cup {<<n, c>> : n \in Inner, c \in Containers}
      \cup {Spans(k) \o <<Node("li", Chars(30))>> : k \in {7, 8}}
      \cup {<<Node("body", Chars(60)), Node("div", Chars(60))>>}

ContextInputs == [tag : {"a", "button", "input"}, ancestors : Chains]

NotPicked == [kind |-> "-", context |-> << >>]

InitContext ==
    /\ cx_in \in ContextInputs
    /\ cx_out = NotPicked
    /\ b_decision = NoDecision
    /\ b_candidates = << >>
    /\ b_url = << >>
    /\ b_step = 0
    /\ b_fixed = FixedNone
    /\ b_result = ReturnedNone
    /\ b_pc = "-"
    /\ DecideQuiet
    /\ LoopQuiet
    /\ ActQuiet /\ ExtractQuiet /\ SelectorQuiet /\ PageIRQuiet
    /\ UrlQuiet /\ LabelQuiet /\ ClientQuiet

\* lines 165-168 of extract_candidates for one element
PickContext ==
    /\ cx_out = NotPicked
    /\ cx_out' = [kind |-> "value", context |-> ContextOf(cx_in.tag, cx_in.ancestors)]
    /\ UNCHANGED <<cx_in, buildVars, decideVars, loopVars, inflight, x_soup, x_candidates,
                   x_nodes, x_pc, sel_in, sel_out, ir_in, ir_out, u_in, u_out, lb_in,
                   lb_out, c_log, c_pc>>

NextContext == PickContext

SpecContext == InitContext /\ [][NextContext]_vars

\* The collapsed text of an ancestor, and the ancestors the claim names.
Collapsed(node) == _norm_context_ws(node.text)

NamedContainer(node) ==
    \/ node.tag \in {"li", "tr", "article"}
    \/ node.tag = "div" /\ 50 < Len(Collapsed(node)) /\ Len(Collapsed(node)) < 900

NearestNamed(ancestors) ==
    LET within == {i \in 1..Len(ancestors) : i <= 8 /\ NamedContainer(ancestors[i])}
    IN  IF within = {} THEN << >>
        ELSE SubSeq(Collapsed(ancestors[SetMin(within)]), 1,
                    IF Len(Collapsed(ancestors[SetMin(within)])) < 180
                    THEN Len(Collapsed(ancestors[SetMin(within)])) ELSE 180)

\* C30: the context of an anchor or button is the collapsed text, cut to 180
\* characters, of the nearest ancestor within 8 levels that is an li, tr or
\* article, or a div whose collapsed text is longer than 50 and shorter than
\* 900 characters; it is empty when there is none, and empty for every other
\* candidate.
C30_Context ==
    cx_out.kind = "value" =>
        cx_out.context = IF cx_in.tag \in {"a", "button"}
                         THEN NearestNamed(cx_in.ancestors) ELSE << >>

\* The same where every li, tr and article on the way has a collapsed text
\* longer than 20 and shorter than 900 characters.
Context_CardText ==
    (\A i \in 1..Len(cx_in.ancestors) :
        /\ cx_in.ancestors[i].tag \notin {"body", "html"}
        /\ cx_in.ancestors[i].tag \in {"li", "tr", "article"} =>
              /\ 20 < Len(Collapsed(cx_in.ancestors[i]))
              /\ Len(Collapsed(cx_in.ancestors[i])) < 900)
    => C30_Context

====
